---- MODULE Spec2Model ----
(***************************************************************************)
(* Job scheduler, durable job store and /convert endpoint of the PWA-to-   *)
(* APK conversion service (src/src/app.js, the bounded-concurrency         *)
(* variant at lines 314-858).                                              *)
(*                                                                         *)
(* Node.js runs every handler and every promise callback to completion on  *)
(* one thread; promise callbacks (microtasks) run before the next request  *)
(* handler (macrotask).  SQLite statements issued with db.run execute on a *)
(* thread pool and take effect later, in no guaranteed order.              *)
(***************************************************************************)
EXTENDS Integers, Sequences, FiniteSets, TLC

\* ----------------------------------------------------------------- bounds
\* Number of submissions the model accepts (uuidv4 ids 1..MaxSubmit).
MaxSubmit == 4
\* Largest value Date.now() returns in the model.
MaxClock == 1
\* Number of submissions followed through the clock and the store.
MaxStored == 2
\* Number of submissions followed through the signing step.
MaxSigned == 2
\* Largest attempt count robustFetch is called with.
MaxRetries == 3

\* -------------------------------------------------------------- constants
\* const maxJobs = process.env.maxProcess || 2
maxJobs == 2

\* "Internal server error." : the text stored for every failed job.
GenericError == "Internal server error."

JobIds == 1..MaxSubmit

\* null, and a present value, of a nullable field.
Null == <<>>
Some(x) == <<x>>

\* ------------------------------------------------- request body (JS values)
\* A string is a sequence of tokens; SP is a whitespace character.
SP == "sp"
Undefined == [type |-> "undefined", chars |-> <<>>]
Number42 == [type |-> "number", chars |-> <<>>]
Str(c) == [type |-> "string", chars |-> c]

Hosts == {"a.example", "b.example"}

\* Values a client may send as url.
UrlInputs ==
  { Undefined, Number42, Str(<<>>), Str(<<SP, SP>>), Str(<<"example">>),
    Str(<<"https://">>), Str(<<"https://", "a.example">>) }

\* Values a client may send as manifestUrl.
ManifestInputs ==
  { Undefined, Str(<<SP>>), Str(<<"example">>),
    Str(<<"https://", "a.example", "/manifest.json">>),
    Str(<<SP, "https://", "a.example", "/manifest.json", SP>>) }

\* String.prototype.trim
RECURSIVE TrimLeft(_)
TrimLeft(c) == IF c # <<>> /\ Head(c) = SP THEN TrimLeft(Tail(c)) ELSE c

RECURSIVE TrimRight(_)
TrimRight(c) ==
  IF c # <<>> /\ c[Len(c)] = SP THEN TrimRight(SubSeq(c, 1, Len(c) - 1)) ELSE c

Trim(c) == TrimRight(TrimLeft(c))

\* typeof v !== 'string' || v.trim() === ''
NotNonBlankString(v) == v.type # "string" \/ Trim(v.chars) = <<>>

\* new URL(s): leading and trailing spaces are stripped, an absolute URL needs
\* a scheme and, for https, a host; an empty path is normalised to "/".
\* The result is [ok |-> FALSE] when the constructor throws.
URLParse(c) ==
  LET t == Trim(c) IN
  IF Len(t) >= 2 /\ t[1] = "https://" /\ t[2] \in Hosts
  THEN [ok |-> TRUE, hostname |-> t[2],
        href |-> IF Len(t) = 2 THEN t \o <<"/">> ELSE t]
  ELSE [ok |-> FALSE, hostname |-> "", href |-> <<>>]

\* missingParams of POST /convert: the fields that fail the string check.
MissingParams(url, manifestUrl) ==
  (IF NotNonBlankString(url) THEN {"url"} ELSE {})
    \cup (IF NotNonBlankString(manifestUrl) THEN {"manifestUrl"} ELSE {})

\* Mutant of InvalidUrlFormat: the URL constructor check is skipped.
InvalidUrlFormatSkipped(url, manifestUrl) == FALSE

\* try { new URL(url); new URL(manifestUrl) } catch -> 400
InvalidUrlFormat(url, manifestUrl) ==
  ~URLParse(url.chars).ok \/ ~URLParse(manifestUrl.chars).ok

\* --------------------------------------------------------------- variables
VARIABLES
  jobs,        \* const jobs = {} : jobId -> in-memory record, NoJob if absent
  jobQueue,    \* const jobQueue = [] : entries {jobId, url, manifestUrl}
  activeJobs,  \* let activeJobs = 0
  task,        \* per job: the promise chain processQueue builds for it
  dbJobs,      \* table jobs of jobs.sqlite : jobId -> row, NoRow if absent
  dbInFlight,  \* statements issued with db.run and not yet executed
  now,         \* the last value Date.now() returned
  response,    \* the last HTTP response of POST /convert
  submitted,   \* history: accepted jobIds in submission order
  dispatchLog, \* history: jobIds in the order processQueue popped them
  isProcessing, \* the flag of the one-at-a-time processQueue
  keyFiles,    \* keystores/<domain>.jks on disk : domain -> key, NoKey if absent
  dbKeystores, \* table keystores of jobs.sqlite : a set of rows
  ksInFlight,  \* INSERT OR REPLACE INTO keystores issued and not yet executed
  pipe,        \* per job: the locals of processConversionJob at its awaits
  keyLog,      \* history: the keys keyTool.createSigningKey has created
  fetch,       \* one call of robustFetch: its arguments, attempt and outcome
  reply,       \* the last HTTP response of GET /job/:jobId or GET /download
  diskFiles,   \* the files under the application root, but the keystores
  boot,        \* history: the starts of the process and the rows each found
  provided     \* history: jobId -> the projectDir its request body carried

\* The state of the signing step, and all the state the scheduler of the
\* bounded-concurrency server never touches.
signVars == <<keyFiles, dbKeystores, ksInFlight, pipe, keyLog>>
httpVars == <<reply, diskFiles>>
extVars == <<isProcessing, signVars, fetch, httpVars, boot, provided>>

vars == <<jobs, jobQueue, activeJobs, task, dbJobs, dbInFlight, now, response,
          submitted, dispatchLog, extVars>>

NoJob == [status |-> "absent", created |-> 0, updated |-> 0,
          files |-> Null, error |-> Null]
NoRow == [status |-> "absent", created |-> 0, updated |-> 0,
          files |-> Null, error |-> Null]
NoEntry == [jobId |-> 0, url |-> <<>>, manifestUrl |-> <<>>]
NoName == [hash |-> <<>>, ts |-> 0, ext |-> ""]
NoFiles == [apk |-> NoName, aab |-> NoName]
NoTask == [pc |-> "none", job |-> NoEntry, timestamp |-> 0, files |-> NoFiles,
           cause |-> ""]
FinishedTask == [NoTask EXCEPT !.pc = "finished"]
NoResponse == [code |-> 0, error |-> "", jobId |-> 0, details |-> {}]

\* No keystore file, no key options, no robustFetch call.
NoKey == [creator |-> 0, password |-> <<>>]
NoKeyOptions == [path |-> <<>>, alias |-> "", password |-> <<>>,
                 keypassword |-> <<>>]
NoPipe == [step |-> "none", domain |-> "", keyOptions |-> NoKeyOptions,
           created |-> FALSE, apkKey |-> 0, aabKey |-> 0, after |-> {}]
NoFailure == [kind |-> "", attempt |-> 0]
NoFetchResponse == [attempt |-> 0, ok |-> FALSE]
NoFetch == [state |-> "idle", retries |-> 0, outcomes |-> <<>>, attempt |-> 0,
            calls |-> 0, delays |-> 0, response |-> NoFetchResponse,
            error |-> NoFailure]

\* The job map, the queue, the counters and the jobs table after start-up.
InitScheduler ==
  /\ jobs = [j \in JobIds |-> NoJob]
  /\ jobQueue = <<>>
  /\ activeJobs = 0
  /\ isProcessing = FALSE
  /\ task = [j \in JobIds |-> NoTask]
  /\ dbJobs = [j \in JobIds |-> NoRow]
  /\ dbInFlight = {}
  /\ now = 0
  /\ response = NoResponse
  /\ submitted = <<>>
  /\ dispatchLog = <<>>

\* An empty keystores directory and an empty keystores table.
InitSigning ==
  /\ keyFiles = [d \in Hosts |-> NoKey]
  /\ dbKeystores = {}
  /\ ksInFlight = {}
  /\ pipe = [j \in JobIds |-> NoPipe]
  /\ keyLog = {}

\* The output directory, and the database file beside it (the name of a
\* file is kept in the three parts of an output name).
OutputDir == <<"output">>
AppRoot == <<>>
DbFile == [dir |-> AppRoot, name |-> [hash |-> <<"jobs">>, ts |-> 0,
                                      ext |-> "sqlite"]]
NoPath == [dir |-> <<>>, name |-> NoName]
NoBody == [jobId |-> 0, status |-> "", created |-> 0, updated |-> 0,
           files |-> Null, error |-> Null]
NoReply == [seq |-> 0, route |-> "", code |-> 0, error |-> "", jobId |-> 0,
            body |-> NoBody, file |-> NoPath]

\* No request answered yet; jobs.sqlite is the only file.
InitHttp ==
  /\ reply = NoReply
  /\ diskFiles = {DbFile}

\* The process has been started once, on an empty store.
NoBoot == [n |-> 0, rows |-> [j \in JobIds |-> NoRow], accepted |-> 0]

InitBoot == boot = NoBoot

\* No request body has carried a projectDir.
NoDir == ""
InitProvided == provided = [j \in JobIds |-> NoDir]

Init ==
  /\ InitScheduler
  /\ InitSigning
  /\ InitHttp
  /\ InitBoot
  /\ InitProvided
  /\ fetch = NoFetch

\* ------------------------------------------------------------ job store
\* JSON.stringify(files) and JSON.parse of the files column.
JSONStringify(files) == [json |-> <<"apk", files.apk, "aab", files.aab>>]
JSONParse(text) == [apk |-> text.json[2], aab |-> text.json[4]]

\* insertJob: INSERT INTO jobs (jobId, status, created, updated)
InsertStmt(jobId, status, created) ==
  [op |-> "INSERT", jobId |-> jobId, status |-> status, created |-> created,
   updated |-> created, files |-> Null, error |-> Null]

\* updateJob: UPDATE jobs SET status, files, error, updated WHERE jobId
UpdateStmt(jobId, status, files, error, updated) ==
  [op |-> "UPDATE", jobId |-> jobId, status |-> status, created |-> 0,
   updated |-> updated,
   files |-> IF files # Null THEN Some(JSONStringify(files[1])) ELSE Null,
   error |-> error]

\* Mutant of Execute: every statement is an INSERT OR REPLACE of its row.
ExecuteReplace(table, stmt) ==
  [table EXCEPT ![stmt.jobId] =
     [status |-> stmt.status, created |-> stmt.created,
      updated |-> stmt.updated, files |-> stmt.files, error |-> stmt.error]]

\* The table after SQLite executes one statement.  jobId is the primary key:
\* an INSERT of an existing key fails, an UPDATE of a missing key changes no row.
Execute(table, stmt) ==
  IF stmt.op = "INSERT"
  THEN IF table[stmt.jobId] = NoRow
       THEN [table EXCEPT ![stmt.jobId] =
               [status |-> stmt.status, created |-> stmt.created,
                updated |-> stmt.updated, files |-> Null, error |-> Null]]
       ELSE table
  ELSE IF table[stmt.jobId] # NoRow
       THEN [table EXCEPT ![stmt.jobId] =
               [@ EXCEPT !.status = stmt.status, !.files = stmt.files,
                         !.error = stmt.error, !.updated = stmt.updated]]
       ELSE table

\* ------------------------------------------------------------- scheduler
\* Mutant of SlotFree: the comparison is off by one.
SlotFreeOffByOne(active) == active <= maxJobs

\* activeJobs < maxJobs
SlotFree(active) == active < maxJobs

\* Mutant of processQueueLoop: a job is started only when none is running.
processQueueLoopIdleOnly(active, queue, started) ==
  IF active = 0 /\ Len(queue) > 0
  THEN [activeJobs |-> 1, jobQueue |-> Tail(queue),
        started |-> Append(started, Head(queue))]
  ELSE [activeJobs |-> active, jobQueue |-> queue, started |-> started]

\* The while loop of processQueue: shift the head and count it as active
\* while a slot is free and the queue is not empty.
\* Mutant of processQueueLoop: a started job is not counted.
RECURSIVE processQueueLoopUncounted(_, _, _)
processQueueLoopUncounted(active, queue, started) ==
  IF SlotFree(active) /\ Len(queue) > 0
  THEN processQueueLoopUncounted(active, Tail(queue),
                                 Append(started, Head(queue)))
  ELSE [activeJobs |-> active, jobQueue |-> queue, started |-> started]

RECURSIVE processQueueLoop(_, _, _)
processQueueLoop(active, queue, started) ==
  IF SlotFree(active) /\ Len(queue) > 0
  THEN processQueueLoop(active + 1, Tail(queue), Append(started, Head(queue)))
  ELSE [activeJobs |-> active, jobQueue |-> queue, started |-> started]

\* `${urlHash}_${timestamp}.<ext>`
OutputName(url, timestamp, ext) ==
  [hash |-> <<"base64">> \o url, ts |-> timestamp, ext |-> ext]

\* path.join(outputDir, name)
OutputPath(name) == [dir |-> OutputDir, name |-> name]

\* The two files processConversionJob copies to the output directory.
OutputPaths(j) ==
  {OutputPath(OutputName(task[j].job.url, task[j].timestamp, "apk")),
   OutputPath(OutputName(task[j].job.url, task[j].timestamp, "aab"))}

\* processConversionJob(job) up to its first await: the task of a started job.
StartedTask(job, timestamp) ==
  [pc |-> "pipeline", job |-> job, timestamp |-> timestamp, files |-> NoFiles,
   cause |-> ""]

\* processQueue() called with the given counter and queue; every job it
\* starts reads Date.now() as t; tasks is the task table it extends.
ProcessQueue(active, queue, tasks, t) ==
  LET r == processQueueLoop(active, queue, <<>>)
      n == Len(r.started)
      ids == {r.started[i].jobId : i \in 1..n}
      entryOf(j) == CHOOSE e \in {r.started[i] : i \in 1..n} : e.jobId = j
  IN /\ activeJobs' = r.activeJobs
     /\ jobQueue' = r.jobQueue
     /\ dispatchLog' = dispatchLog \o [i \in 1..n |-> r.started[i].jobId]
     /\ task' = [j \in JobIds |->
                   IF j \in ids THEN StartedTask(entryOf(j), t) ELSE tasks[j]]

\* Mutant of MicrotaskPending: the delay of robustFetch holds the event loop.
MicrotaskOrTimerPending ==
  \/ \E j \in JobIds : task[j].pc \in {"fulfilled", "rejected", "settled"}
  \/ fetch.state = "waiting"

\* Promise callbacks (microtasks) run before the next request handler.
MicrotaskPending ==
  \E j \in JobIds : task[j].pc \in {"fulfilled", "rejected", "settled"}

\* --------------------------------------------------------- POST /convert
\* 400 {error: "Missing or invalid parameters", details: missingParams}
ConvertMissingParams(url, manifestUrl) ==
  /\ ~MicrotaskPending
  /\ MissingParams(url, manifestUrl) # {}
  /\ response' = [code |-> 400, error |-> "Missing or invalid parameters",
                  jobId |-> 0, details |-> MissingParams(url, manifestUrl)]
  /\ UNCHANGED <<jobs, jobQueue, activeJobs, task, dbJobs, dbInFlight, now,
                 submitted, dispatchLog, extVars>>

\* 400 {error: "Invalid URL format."}
ConvertInvalidUrl(url, manifestUrl) ==
  /\ ~MicrotaskPending
  /\ MissingParams(url, manifestUrl) = {}
  /\ InvalidUrlFormat(url, manifestUrl)
  /\ response' = [code |-> 400, error |-> "Invalid URL format.", jobId |-> 0,
                  details |-> {}]
  /\ UNCHANGED <<jobs, jobQueue, activeJobs, task, dbJobs, dbInFlight, now,
                 submitted, dispatchLog, extVars>>

\* Mutant of PendingJob: updated is read from the clock a second time.
PendingJobUpdatedLater(created) ==
  [status |-> "pending", created |-> created, updated |-> created + 1,
   files |-> Null, error |-> Null]

\* The record POST /convert stores in jobs[jobId].
PendingJob(created) ==
  [status |-> "pending", created |-> created, updated |-> created,
   files |-> Null, error |-> Null]

\* Mutant of Enqueue: the entry is pushed twice.
EnqueueTwice(queue, entry) == Append(Append(queue, entry), entry)

\* Mutant of Enqueue: unshift instead of push.
EnqueueAtHead(queue, entry) == <<entry>> \o queue

\* jobQueue.push({jobId, url, manifestUrl: manifestURLObject})
Enqueue(queue, entry) == Append(queue, entry)

\* A valid submission: record, INSERT, push, processQueue(), 200 {jobId}.
\* uuidv4() returns an id no job has; the ids are taken in the order 1, 2, ...
ConvertAccepted(url, manifestUrl) ==
  /\ ~MicrotaskPending
  /\ MissingParams(url, manifestUrl) = {}
  /\ ~InvalidUrlFormat(url, manifestUrl)
  /\ Len(submitted) < MaxSubmit
  /\ LET jobId == Len(submitted) + 1
         created == now
         entry == [jobId |-> jobId, url |-> url.chars,
                   manifestUrl |-> URLParse(manifestUrl.chars).href]
     IN /\ jobs' = [jobs EXCEPT ![jobId] = PendingJob(created)]
        /\ dbInFlight' = dbInFlight \cup {InsertStmt(jobId, "pending", created)}
        /\ ProcessQueue(activeJobs, Enqueue(jobQueue, entry), task, now)
        /\ response' = [code |-> 200, error |-> "", jobId |-> jobId,
                        details |-> {}]
        /\ submitted' = Append(submitted, jobId)
        /\ UNCHANGED <<dbJobs, now, extVars>>

\* ------------------------------------------------- processConversionJob
\* What the pipeline can throw (lines 454, 502, 649, 666 and the build tools).
Causes == {"HTTP error! status: 500", "Unsigned APK file not found"}

\* Mutant of PipelineReturn: the pipeline itself marks the job completed.
PipelineReturnRecords(j) ==
  /\ task[j].pc = "pipeline"
  /\ task' = [task EXCEPT ![j].pc = "fulfilled",
                ![j].files =
                  [apk |-> OutputName(task[j].job.url, task[j].timestamp, "apk"),
                   aab |-> OutputName(task[j].job.url, task[j].timestamp, "aab")]]
  /\ jobs' = [jobs EXCEPT ![j].status = "completed"]
  /\ UNCHANGED <<jobQueue, activeJobs, dbJobs, dbInFlight, now, response,
                 submitted, dispatchLog, extVars>>

\* The pipeline returns {apk, aab}: the promise of the job is fulfilled.
PipelineReturn(j) ==
  /\ task[j].pc = "pipeline"
  /\ task' = [task EXCEPT ![j].pc = "fulfilled",
                ![j].files =
                  [apk |-> OutputName(task[j].job.url, task[j].timestamp, "apk"),
                   aab |-> OutputName(task[j].job.url, task[j].timestamp, "aab")]]
  /\ UNCHANGED <<jobs, jobQueue, activeJobs, dbJobs, dbInFlight, now, response,
                 submitted, dispatchLog, extVars>>

\* The pipeline throws: the promise of the job is rejected.
PipelineThrow(j, cause) ==
  /\ task[j].pc = "pipeline"
  /\ task' = [task EXCEPT ![j].pc = "rejected", ![j].cause = cause]
  /\ UNCHANGED <<jobs, jobQueue, activeJobs, dbJobs, dbInFlight, now, response,
                 submitted, dispatchLog, extVars>>

\* --------------------------------------- callbacks of processQueue's chain
\* Mutant of CompletedJob: the files are not stored.
CompletedJobNoFiles(job, files, updated) ==
  [job EXCEPT !.status = "completed", !.updated = updated]

\* Mutant of CompletedJob: updated is cleared instead of set.
CompletedJobUpdatedCleared(job, files, updated) ==
  [job EXCEPT !.status = "completed", !.files = Some(files), !.updated = 0]

\* The record the .then callback leaves in jobs[job.jobId].
CompletedJob(job, files, updated) ==
  [job EXCEPT !.status = "completed", !.files = Some(files),
              !.updated = updated]

\* Mutant of FailedJob: the status is left as it was.
FailedJobStaysPending(job, updated) ==
  [job EXCEPT !.error = Some(GenericError), !.updated = updated]

\* The record the .catch callback leaves in jobs[job.jobId].
FailedJob(job, updated) ==
  [job EXCEPT !.status = "failed", !.error = Some(GenericError),
              !.updated = updated]

\* .then((files) => ...)
OnFulfilled(j) ==
  /\ task[j].pc = "fulfilled"
  /\ jobs' = [jobs EXCEPT ![j] = CompletedJob(jobs[j], task[j].files, now)]
  /\ dbInFlight' = dbInFlight \cup
       {UpdateStmt(j, "completed", Some(task[j].files), Null, now)}
  /\ task' = [task EXCEPT ![j].pc = "settled"]
  /\ UNCHANGED <<jobQueue, activeJobs, dbJobs, now, response, submitted,
                 dispatchLog, extVars>>

\* Mutant of OnRejected: the failure also empties the queue.
OnRejectedAbortsQueue(j) ==
  /\ task[j].pc = "rejected"
  /\ jobs' = [jobs EXCEPT ![j] = FailedJob(jobs[j], now)]
  /\ dbInFlight' = dbInFlight \cup
       {UpdateStmt(j, "failed", Null, Some(GenericError), now)}
  /\ task' = [task EXCEPT ![j].pc = "settled", ![j].cause = ""]
  /\ jobQueue' = <<>>
  /\ UNCHANGED <<activeJobs, dbJobs, now, response, submitted, dispatchLog,
                 extVars>>

\* .catch((error) => ...): the cause is logged and dropped.
OnRejected(j) ==
  /\ task[j].pc = "rejected"
  /\ jobs' = [jobs EXCEPT ![j] = FailedJob(jobs[j], now)]
  /\ dbInFlight' = dbInFlight \cup
       {UpdateStmt(j, "failed", Null, Some(GenericError), now)}
  /\ task' = [task EXCEPT ![j].pc = "settled", ![j].cause = ""]
  /\ UNCHANGED <<jobQueue, activeJobs, dbJobs, now, response, submitted,
                 dispatchLog, extVars>>

\* Mutant of Release: the counter is not decremented.
ReleaseForgotten(active) == active

\* activeJobs--
Release(active) == active - 1

\* Mutant of OnFinally: the slot is released, processQueue() is not called.
OnFinallyNoDispatch(j) ==
  /\ task[j].pc = "settled"
  /\ activeJobs' = Release(activeJobs)
  /\ task' = [task EXCEPT ![j] = FinishedTask]
  /\ UNCHANGED <<jobs, jobQueue, dbJobs, dbInFlight, now, response, submitted,
                 dispatchLog, extVars>>

\* .finally(() => { activeJobs--; processQueue(); })
OnFinally(j) ==
  /\ task[j].pc = "settled"
  /\ ProcessQueue(Release(activeJobs), jobQueue,
                  [task EXCEPT ![j] = FinishedTask], now)
  /\ UNCHANGED <<jobs, dbJobs, dbInFlight, now, response, submitted, extVars>>

\* ------------------------------------------------------------- clock
\* Time passes: the next Date.now() returns a later value.
Tick ==
  /\ now < MaxClock
  /\ now' = now + 1
  /\ UNCHANGED <<jobs, jobQueue, activeJobs, task, dbJobs, dbInFlight,
                 response, submitted, dispatchLog, extVars>>

\* ------------------------------------------------------------ SQLite
\* One statement issued with db.run is executed.
DbRun(stmt) ==
  /\ stmt \in dbInFlight
  /\ dbJobs' = Execute(dbJobs, stmt)
  /\ dbInFlight' = dbInFlight \ {stmt}
  /\ UNCHANGED <<jobs, jobQueue, activeJobs, task, now, response, submitted,
                 dispatchLog, extVars>>

\* ----------------------------------------------------------------- spec
\* The requests, the pipeline and the callbacks of the scheduler.
Convert ==
  \/ \E url \in UrlInputs, manifestUrl \in ManifestInputs :
       ConvertMissingParams(url, manifestUrl)
  \/ \E url \in UrlInputs, manifestUrl \in ManifestInputs :
       ConvertInvalidUrl(url, manifestUrl)
  \/ \E url \in UrlInputs, manifestUrl \in ManifestInputs :
       ConvertAccepted(url, manifestUrl)

Pipeline ==
  \/ \E j \in JobIds : PipelineReturn(j)
  \/ \E j \in JobIds, cause \in Causes : PipelineThrow(j, cause)

Callbacks ==
  \/ \E j \in JobIds : OnFulfilled(j)
  \/ \E j \in JobIds : OnRejected(j)
  \/ \E j \in JobIds : OnFinally(j)

\* The scheduler within one clock reading and before SQLite executes
\* anything: every statement stays in flight.  No action of the scheduler
\* reads dbJobs, and none reads now but to copy it into a record.
SchedNext == Convert \/ Pipeline \/ Callbacks

SchedSpec == Init /\ [][SchedNext]_vars

\* The scheduler with the clock and the store, for the first MaxStored jobs.
Next ==
  \/ (Len(submitted) < MaxStored /\ Convert)
  \/ Pipeline
  \/ Callbacks
  \/ Tick
  \/ \E stmt \in dbInFlight : DbRun(stmt)

Spec == Init /\ [][Next]_vars

\* The pipeline and the callbacks always get to run: every pipeline settles,
\* and the event loop runs every pending promise callback.
FairSchedSpec ==
  /\ SchedSpec
  /\ \A j \in JobIds :
       /\ WF_vars(PipelineReturn(j) \/ \E cause \in Causes : PipelineThrow(j, cause))
       /\ WF_vars(OnFulfilled(j))
       /\ WF_vars(OnRejected(j))
       /\ WF_vars(OnFinally(j))

\* ------------------------------------------------------------ properties
Terminal(status) == status \in {"completed", "failed"}

\* The job was popped by processQueue and its .finally callback has not run.
InFlight(j) == task[j].pc \in {"pipeline", "fulfilled", "rejected", "settled"}

QueueIds(queue) == [i \in 1..Len(queue) |-> queue[i].jobId]

\* C1: in every reachable state the number of jobs dispatched to the pipeline
\* and not yet finished, and the running count, are at most the cap maxJobs.
C1_ConcurrencyCap ==
  /\ Cardinality({j \in JobIds : InFlight(j)}) <= maxJobs
  /\ activeJobs <= maxJobs

\* The cap is reached while a burst of further jobs waits in the queue.
C1_Witness ==
  /\ Cardinality({j \in JobIds : task[j].pc = "pipeline"}) = maxJobs
  /\ Len(jobQueue) >= 2

\* C2: with every pipeline settling, every accepted job eventually has status
\* completed or failed, and a terminal status never changes again.
C2_EventuallyTerminal ==
  /\ \A j \in JobIds :
       (jobs[j].status # "absent") ~> Terminal(jobs[j].status)
  /\ [][\A j \in JobIds :
          Terminal(jobs[j].status) => jobs'[j].status = jobs[j].status]_vars

\* Every submitted job is terminal, some completed and some failed.
C2_Witness ==
  /\ Len(submitted) = MaxSubmit
  /\ \A j \in JobIds : Terminal(jobs[j].status)
  /\ \E j, k \in JobIds :
       jobs[j].status = "completed" /\ jobs[k].status = "failed"

\* C3: jobs are dispatched in submission order: the jobs dispatched so far,
\* followed by the queue from head to tail, are the accepted jobs in the
\* order they were submitted.
C3_FifoDispatch == submitted = dispatchLog \o QueueIds(jobQueue)

\* A job was dispatched from the queue after a slot freed, others still wait.
C3_Witness ==
  /\ Len(dispatchLog) > maxJobs
  /\ jobQueue # <<>>

\* C4: a step that accepts a submission creates the pending record (updated =
\* created, no files, no error) in jobs, issues its INSERT, appends the entry
\* to the tail of the queue, runs a dispatch attempt and answers 200 with the
\* new jobId, without touching any running build or any other record.
C4_SubmitEffect ==
  [][Len(submitted') = Len(submitted) + 1 =>
       LET id == submitted'[Len(submitted')]
           started == Len(dispatchLog') - Len(dispatchLog)
       IN /\ jobs[id] = NoJob
          /\ jobs'[id] = [status |-> "pending", created |-> now,
                          updated |-> now, files |-> Null, error |-> Null]
          /\ \A k \in JobIds \ {id} : jobs'[k] = jobs[k]
          /\ dbInFlight' = dbInFlight \cup
               {[op |-> "INSERT", jobId |-> id, status |-> "pending",
                 created |-> now, updated |-> now, files |-> Null,
                 error |-> Null]}
          /\ dbJobs' = dbJobs
          /\ dispatchLog' \o QueueIds(jobQueue')
               = dispatchLog \o QueueIds(jobQueue) \o <<id>>
          /\ SubSeq(dispatchLog', 1, Len(dispatchLog)) = dispatchLog
          /\ activeJobs' = activeJobs + started
          /\ jobQueue' = <<>> \/ activeJobs' = maxJobs
          /\ \A k \in JobIds : InFlight(k) => task'[k] = task[k]
          /\ response' = [code |-> 200, error |-> "", jobId |-> id,
                          details |-> {}]]_vars

\* A submission was accepted while every slot was busy and jobs were queued.
C4_Witness ==
  /\ response.code = 200
  /\ activeJobs = maxJobs
  /\ Len(jobQueue) >= 2
  /\ jobQueue[Len(jobQueue)].jobId = response.jobId
  /\ jobs[response.jobId].status = "pending"

\* A field the claim calls invalid: missing or not a string, empty or
\* whitespace-only, or not a well-formed URL.
C5_BadField(v) ==
  \/ v.type # "string"
  \/ \A i \in 1..Len(v.chars) : v.chars[i] = SP
  \/ ~URLParse(v.chars).ok

\* C5: a POST /convert whose url or manifestUrl is invalid is answered 400 and
\* leaves the job map, the store, the queue and the running count unchanged.
C5_InvalidRejected ==
  [][\A url \in UrlInputs, manifestUrl \in ManifestInputs :
       /\ C5_BadField(url) \/ C5_BadField(manifestUrl)
       /\ \/ ConvertMissingParams(url, manifestUrl)
          \/ ConvertInvalidUrl(url, manifestUrl)
          \/ ConvertAccepted(url, manifestUrl)
       => /\ response'.code = 400
          /\ response'.jobId = 0
          /\ UNCHANGED <<jobs, dbJobs, dbInFlight, jobQueue, activeJobs, task,
                         submitted, dispatchLog>>]_vars

\* A malformed URL was rejected while jobs were running and queued.
C5_Witness ==
  /\ response.code = 400
  /\ response.error = "Invalid URL format."
  /\ activeJobs = maxJobs
  /\ jobQueue # <<>>

\* Position of a status on pending -> running -> {completed, failed}.
Rank(status) ==
  CASE status = "absent" -> 0
    [] status = "pending" -> 1
    [] status = "running" -> 2
    [] Terminal(status) -> 3

Statuses == {"absent", "pending", "running", "completed", "failed"}

\* C6: in the in-memory record and in the store row of every job, a step never
\* moves the status back along pending -> running -> {completed, failed} and
\* never changes a terminal status.
C6_StatusMonotonic ==
  [][\A j \in JobIds :
       /\ jobs'[j].status \in Statuses /\ dbJobs'[j].status \in Statuses
       /\ Rank(jobs'[j].status) >= Rank(jobs[j].status)
       /\ Rank(dbJobs'[j].status) >= Rank(dbJobs[j].status)
       /\ Terminal(jobs[j].status) => jobs'[j].status = jobs[j].status
       /\ Terminal(dbJobs[j].status) => dbJobs'[j].status = dbJobs[j].status]_vars

\* One job's UPDATE ran before its INSERT and the row stayed pending, while
\* another job is terminal in memory and in the store.
C6_Witness ==
  \E j, k \in JobIds :
    /\ Terminal(jobs[j].status) /\ dbJobs[j].status = "pending"
    /\ \A stmt \in dbInFlight : stmt.jobId # j
    /\ Terminal(jobs[k].status) /\ dbJobs[k].status = jobs[k].status

\* result XOR error of an in-memory record.
C7_RecordOk(r) ==
  /\ r.status = "completed" =>
       /\ r.files # Null /\ r.error = Null
       /\ r.files[1].apk.ext = "apk" /\ r.files[1].aab.ext = "aab"
  /\ r.status = "failed" => r.error # Null /\ r.files = Null
  /\ ~Terminal(r.status) => r.files = Null /\ r.error = Null

\* result XOR error of a store row, whose files column holds JSON text.
C7_RowOk(r) ==
  /\ r.status = "completed" =>
       /\ r.files # Null /\ r.error = Null
       /\ JSONParse(r.files[1]).apk.ext = "apk"
       /\ JSONParse(r.files[1]).aab.ext = "aab"
  /\ r.status = "failed" => r.error # Null /\ r.files = Null
  /\ ~Terminal(r.status) => r.files = Null /\ r.error = Null

\* C7: a completed job has a result with both artifact filenames and no error,
\* a failed job has an error and no result, a non-terminal job has neither,
\* in memory and in the store.
C7_ResultXorError ==
  \A j \in JobIds : C7_RecordOk(jobs[j]) /\ C7_RowOk(dbJobs[j])

\* A completed job and a failed job, each terminal in memory and in the store.
C7_Witness ==
  \E j, k \in JobIds :
    /\ jobs[j].status = "completed" /\ dbJobs[j].status = "completed"
    /\ jobs[k].status = "failed" /\ dbJobs[k].status = "failed"

\* C8: every job that is dispatched and not yet finished has status running.
C8_DispatchedIsRunning ==
  \A j \in JobIds : InFlight(j) => jobs[j].status = "running"

\* The burst of C9: more than maxJobs jobs accepted and no pipeline settled.
C9_Burst ==
  /\ Len(submitted) > maxJobs
  /\ \A j \in JobIds : task[j].pc \in {"none", "pipeline"}

\* C9: after a burst of k > maxJobs submissions to an idle scheduler exactly
\* maxJobs jobs have status running and the other k - maxJobs are pending.
C9_BurstRunsCap ==
  C9_Burst =>
    /\ Cardinality({j \in JobIds : jobs[j].status = "running"}) = maxJobs
    /\ Cardinality({j \in JobIds : jobs[j].status = "pending"})
         = Len(submitted) - maxJobs

\* What the scheduler does in the burst of C9, whatever the status field says:
\* the first maxJobs jobs are in the pipeline, the others wait in order.
BurstDispatch ==
  C9_Burst =>
    /\ dispatchLog = SubSeq(submitted, 1, maxJobs)
    /\ QueueIds(jobQueue) = SubSeq(submitted, maxJobs + 1, Len(submitted))
    /\ activeJobs = maxJobs

\* C10: the .catch callback marks the job of a rejected pipeline failed with
\* the generic message and keeps its slot; the .finally callback then
\* releases the slot once and re-runs the dispatch loop, which leaves no free
\* slot beside a waiting job; a finished job never releases a slot again.
C10_FailureHandled ==
  [][\A j \in JobIds :
       /\ task[j].pc = "rejected" /\ task'[j] # task[j] =>
            /\ task'[j].pc = "settled"
            /\ jobs'[j].status = "failed"
            /\ jobs'[j].error = Some(GenericError)
            /\ jobs'[j].files = Null
            /\ activeJobs' = activeJobs /\ jobQueue' = jobQueue
       /\ task[j].pc = "settled" /\ jobs[j].status = "failed"
            /\ task'[j] # task[j] =>
            /\ task'[j].pc = "finished"
            /\ jobs'[j] = jobs[j]
            /\ activeJobs' = activeJobs - 1
                 + (Len(dispatchLog') - Len(dispatchLog))
            /\ Len(jobQueue') = Len(jobQueue)
                 - (Len(dispatchLog') - Len(dispatchLog))
            /\ jobQueue' = <<>> \/ activeJobs' = maxJobs
       /\ task[j].pc = "finished" => task'[j].pc = "finished"]_vars

\* A job failed, its slot went to the job at the head of the queue.
C10_Witness ==
  \E j, k \in JobIds :
    /\ task[j].pc = "finished" /\ jobs[j].status = "failed"
    /\ Len(dispatchLog) > maxJobs
    /\ dispatchLog[Len(dispatchLog)] = k /\ task[k].pc = "pipeline"
    /\ activeJobs = maxJobs

\* ============================================================================
\* The server that takes the icon as a multipart upload: one job at a time.
\* ============================================================================
\* `!v` of a form field: absent or the empty string.
Falsy(v) == v.type = "undefined" \/ (v.type = "string" /\ v.chars = <<>>)

\* The text fields and the file a multipart request may carry.
FormUrls == {Undefined, Str(<<>>), Str(<<"https://", "a.example">>)}
FormManifests ==
  {Undefined, Str(<<"https://", "a.example", "/manifest.json">>)}

\* missingParams of the multipart POST /convert
MultipartMissingParams(url, manifestUrl, file) ==
  (IF Falsy(url) THEN {"url"} ELSE {})
    \cup (IF Falsy(manifestUrl) THEN {"manifestUrl"} ELSE {})
    \cup (IF ~file THEN {"icon"} ELSE {})

\* Mutant of SequentialProcessQueue: the flag is not tested.
SequentialProcessQueueUnguarded(processing, queue, tasks, t) ==
  IF Len(queue) = 0
  THEN /\ isProcessing' = processing
       /\ jobQueue' = queue
       /\ task' = tasks
       /\ dispatchLog' = dispatchLog
  ELSE /\ isProcessing' = TRUE
       /\ jobQueue' = Tail(queue)
       /\ task' = [tasks EXCEPT
                     ![Head(queue).jobId] = StartedTask(Head(queue), t)]
       /\ dispatchLog' = Append(dispatchLog, Head(queue).jobId)

\* processQueue() of the one-at-a-time worker, called with the given flag
\* and queue; the job it starts reads Date.now() as t.
SequentialProcessQueue(processing, queue, tasks, t) ==
  IF processing \/ Len(queue) = 0
  THEN /\ isProcessing' = processing
       /\ jobQueue' = queue
       /\ task' = tasks
       /\ dispatchLog' = dispatchLog
  ELSE /\ isProcessing' = TRUE
       /\ jobQueue' = Tail(queue)
       /\ task' = [tasks EXCEPT
                     ![Head(queue).jobId] = StartedTask(Head(queue), t)]
       /\ dispatchLog' = Append(dispatchLog, Head(queue).jobId)

\* 400 {error: "Missing or invalid parameters", details: missingParams}
MultipartConvertMissing(url, manifestUrl, file) ==
  /\ ~MicrotaskPending
  /\ MultipartMissingParams(url, manifestUrl, file) # {}
  /\ response' = [code |-> 400, error |-> "Missing or invalid parameters",
                  jobId |-> 0,
                  details |-> MultipartMissingParams(url, manifestUrl, file)]
  /\ UNCHANGED <<jobs, jobQueue, activeJobs, task, dbJobs, dbInFlight, now,
                 submitted, dispatchLog, extVars>>

\* A complete form: record, INSERT, push, processQueue(), 200 {jobId}.
MultipartConvertAccepted(url, manifestUrl, file) ==
  /\ ~MicrotaskPending
  /\ MultipartMissingParams(url, manifestUrl, file) = {}
  /\ Len(submitted) < MaxSubmit
  /\ LET jobId == Len(submitted) + 1
         created == now
         entry == [jobId |-> jobId, url |-> url.chars,
                   manifestUrl |-> manifestUrl.chars]
     IN /\ jobs' = [jobs EXCEPT ![jobId] = PendingJob(created)]
        /\ dbInFlight' = dbInFlight \cup {InsertStmt(jobId, "pending", created)}
        /\ SequentialProcessQueue(isProcessing, Enqueue(jobQueue, entry),
                                  task, now)
        /\ response' = [code |-> 200, error |-> "", jobId |-> jobId,
                        details |-> {}]
        /\ submitted' = Append(submitted, jobId)
        /\ UNCHANGED <<activeJobs, dbJobs, now, signVars, fetch, httpVars, boot, provided>>

\* The record the catch block leaves in jobs[job.jobId]: error.message.
FailedJobWithMessage(job, message, updated) ==
  [job EXCEPT !.status = "failed", !.error = Some(message),
              !.updated = updated]

\* processQueue resumes after `await processConversionJob(job)`: the try or
\* the catch branch, then isProcessing = false and processQueue().
MultipartResume(j) ==
  /\ task[j].pc \in {"fulfilled", "rejected"}
  /\ IF task[j].pc = "fulfilled"
     THEN /\ jobs' = [jobs EXCEPT
                        ![j] = CompletedJob(jobs[j], task[j].files, now)]
          /\ dbInFlight' = dbInFlight \cup
               {UpdateStmt(j, "completed", Some(task[j].files), Null, now)}
     ELSE /\ jobs' = [jobs EXCEPT
                        ![j] = FailedJobWithMessage(jobs[j], task[j].cause, now)]
          /\ dbInFlight' = dbInFlight \cup
               {UpdateStmt(j, "failed", Null, Some(task[j].cause), now)}
  /\ SequentialProcessQueue(FALSE, jobQueue,
                            [task EXCEPT ![j] = FinishedTask], now)
  /\ UNCHANGED <<activeJobs, dbJobs, now, response, submitted, signVars, fetch,
                 httpVars, boot, provided>>

MultipartConvert ==
  \/ \E url \in FormUrls, manifestUrl \in FormManifests, file \in BOOLEAN :
       MultipartConvertMissing(url, manifestUrl, file)
  \/ \E url \in FormUrls, manifestUrl \in FormManifests, file \in BOOLEAN :
       MultipartConvertAccepted(url, manifestUrl, file)

MultipartNext ==
  \/ MultipartConvert
  \/ Pipeline
  \/ \E j \in JobIds : MultipartResume(j)

MultipartSpec == Init /\ [][MultipartNext]_vars

\* The error texts a client can read for job j: the field of the job map,
\* and the error column of the row and of the statements on their way to it.
ErrorTexts(j) ==
  {jobs[j].error, dbJobs[j].error}
    \cup {stmt.error : stmt \in {s \in dbInFlight : s.jobId = j}}

\* C11: in every reachable state every job's error, in the job map and in the
\* store, is either empty or the one generic constant, whatever exception the
\* pipeline threw.
C11_GenericError ==
  \A j \in JobIds : ErrorTexts(j) \subseteq {Null, Some(GenericError)}

\* The queue after a step is the queue before it without the jobs the step
\* dispatched, which were its head.
QueuePoppedOnly ==
  LET n == Len(dispatchLog') - Len(dispatchLog)
  IN /\ n <= Len(jobQueue)
     /\ jobQueue' = SubSeq(jobQueue, n + 1, Len(jobQueue))
     /\ \A i \in 1..n : dispatchLog'[Len(dispatchLog) + i] = jobQueue[i].jobId

\* C12: the step that records the failure of job j changes the record of no
\* other job, nor the queue, nor the running count; the step that then
\* releases its slot changes no record and only pops dispatched jobs off the
\* head of the queue; and once a job has failed every other accepted job
\* still reaches completed or failed.
C12_FailureContained ==
  /\ [][\A j \in JobIds :
          /\ task[j].pc = "rejected" /\ task'[j].pc = "settled" =>
               /\ \A k \in JobIds \ {j} :
                    jobs'[k] = jobs[k] /\ task'[k] = task[k]
               /\ jobQueue' = jobQueue
               /\ activeJobs' = activeJobs
          /\ task[j].pc = "settled" /\ jobs[j].status = "failed"
               /\ task'[j].pc = "finished" =>
               /\ jobs' = jobs
               /\ QueuePoppedOnly
               /\ activeJobs' = activeJobs - 1
                    + (Len(dispatchLog') - Len(dispatchLog))
               /\ \A k \in JobIds \ {j} :
                    task'[k] = task[k] \/ task[k].pc = "none"]_vars
  /\ \A k \in JobIds :
       (jobs[k].status = "pending"
          /\ \E j \in JobIds : jobs[j].status = "failed")
         ~> Terminal(jobs[k].status)

\* A job failed while another waited in the queue, and that one completed.
C12_Witness ==
  \E j, k \in JobIds :
    /\ jobs[j].status = "failed" /\ task[j].pc = "finished"
    /\ jobs[k].status = "completed"
    /\ \E a, b \in 1..Len(dispatchLog) :
         /\ a <= maxJobs /\ b > maxJobs
         /\ dispatchLog[a] = j /\ dispatchLog[b] = k

\* ============================================================================
\* processConversionJob, the signing step (bounded-concurrency server).
\* ============================================================================
\* path.join(keystoreRootDir, `${domain}.jks`)
KeystorePath(domain) == <<"keystores", domain, ".jks">>

\* Math.random().toString(36).substring(2, 8)
Rands == {"r1", "r2"}

\* The keyOptions of the branch `if (!keyOptions)`; password = domain + random.
NewKeyOptions(domain, randomPart) ==
  [path |-> KeystorePath(domain), alias |-> domain,
   password |-> <<domain, randomPart>>, keypassword |-> <<domain, randomPart>>]

\* The keyOptions db.get resolves with for a row of keystores.
RowKeyOptions(row) ==
  [path |-> row.keystorePath, alias |-> row.domain, password |-> row.password,
   keypassword |-> row.keypassword]

\* The row INSERT OR REPLACE INTO keystores writes.
KeystoreRow(domain, jobId, keyOptions) ==
  [domain |-> domain, jobId |-> jobId, keystorePath |-> keyOptions.path,
   password |-> keyOptions.password, keypassword |-> keyOptions.keypassword]

\* Mutant of SelectByDomain: the lookup finds nothing.
SelectNothing(table, domain) == {}

\* SELECT * FROM keystores WHERE domain = ?
SelectByDomain(table, domain) == {row \in table : row.domain = domain}

\* INSERT OR REPLACE with domain TEXT PRIMARY KEY.
InsertOrReplace(table, row) ==
  {r \in table : r.domain # row.domain} \cup {row}

\* fs.existsSync(keystorePath)
KeystoreExists(domain) == keyFiles[domain] # NoKey

\* The job calls keyTool.createSigningKey with fresh key options.
CallCreateSigningKey(j, domain, randomPart) ==
  [pipe[j] EXCEPT !.step = "keytool", !.domain = domain,
                  !.keyOptions = NewKeyOptions(domain, randomPart),
                  !.created = TRUE]

\* The job calls jarSigner.sign for the APK with the key options it holds.
CallSignApk(j, keyOptions) ==
  [pipe[j] EXCEPT !.step = "signApk", !.keyOptions = keyOptions]

\* processQueue has called processConversionJob(job), which runs up to its
\* first await before processQueue goes on.
EnterPending == \E j \in JobIds : task[j].pc = "pipeline" /\ pipe[j].step = "none"

\* processConversionJob(job) from its call to its first await; after is the
\* history of the jobs whose chain had ended when this job was started.
EnterPipeline(j) ==
  /\ task[j].pc = "pipeline" /\ pipe[j].step = "none"
  /\ pipe' = [pipe EXCEPT ![j].step = "build",
                ![j].after = {k \in JobIds : task[k].pc = "finished"}]
  /\ UNCHANGED <<jobs, jobQueue, activeJobs, task, dbJobs, dbInFlight, now,
                 response, submitted, dispatchLog, isProcessing, keyFiles,
                 dbKeystores, ksInFlight, keyLog, fetch,
                 httpVars, boot, provided>>

\* Workspace, manifest and Gradle build are done: the job computes its
\* domain and keystore path and looks for the keystore file.  With the file
\* it issues the SELECT; without it it generates key options and calls the
\* key tool.
ReachSigning(j) ==
  /\ ~EnterPending
  /\ task[j].pc = "pipeline" /\ pipe[j].step = "build"
  /\ LET domain == URLParse(task[j].job.url).hostname
     IN IF KeystoreExists(domain)
        THEN pipe' = [pipe EXCEPT ![j].step = "select", ![j].domain = domain]
        ELSE \E randomPart \in Rands :
               pipe' = [pipe EXCEPT ![j] =
                          CallCreateSigningKey(j, domain, randomPart)]
  /\ UNCHANGED <<jobs, jobQueue, activeJobs, task, dbJobs, dbInFlight, now,
                 response, submitted, dispatchLog, isProcessing, keyFiles,
                 dbKeystores, ksInFlight, keyLog, fetch,
                 httpVars, boot, provided>>

\* db.get calls back with the row of the domain, or with none.
SelectDone(j) ==
  /\ ~EnterPending
  /\ task[j].pc = "pipeline" /\ pipe[j].step = "select"
  /\ LET rows == SelectByDomain(dbKeystores, pipe[j].domain)
     IN IF rows # {}
        THEN \E row \in rows :
               pipe' = [pipe EXCEPT ![j] = CallSignApk(j, RowKeyOptions(row))]
        ELSE \E randomPart \in Rands :
               pipe' = [pipe EXCEPT ![j] =
                          CallCreateSigningKey(j, pipe[j].domain, randomPart)]
  /\ UNCHANGED <<jobs, jobQueue, activeJobs, task, dbJobs, dbInFlight, now,
                 response, submitted, dispatchLog, isProcessing, keyFiles,
                 dbKeystores, ksInFlight, keyLog, fetch,
                 httpVars, boot, provided>>

\* createSigningKey(keyOptions, true) resolves: the keystore at the path now
\* holds a new key under the job's password, whatever was there before.  The
\* job issues the INSERT OR REPLACE, does not wait for it, and calls the
\* signer.
KeytoolDone(j) ==
  /\ ~EnterPending
  /\ task[j].pc = "pipeline" /\ pipe[j].step = "keytool"
  /\ LET key == [creator |-> j, password |-> pipe[j].keyOptions.password]
     IN /\ keyFiles' = [keyFiles EXCEPT ![pipe[j].domain] = key]
        /\ keyLog' = keyLog \cup {[domain |-> pipe[j].domain, key |-> key]}
  /\ ksInFlight' = ksInFlight \cup
       {KeystoreRow(pipe[j].domain, j, pipe[j].keyOptions)}
  /\ pipe' = [pipe EXCEPT ![j] = CallSignApk(j, pipe[j].keyOptions)]
  /\ UNCHANGED <<jobs, jobQueue, activeJobs, task, dbJobs, dbInFlight, now,
                 response, submitted, dispatchLog, isProcessing, dbKeystores,
                 fetch, httpVars, boot, provided>>

\* jarsigner opens the keystore at keyOptions.path with keyOptions.password.
KeystoreOpens(keyOptions) ==
  /\ keyFiles[keyOptions.alias] # NoKey
  /\ keyFiles[keyOptions.alias].password = keyOptions.password

\* jarSigner.sign of the APK resolves; the job calls it for the AAB.
SignApkDone(j) ==
  /\ ~EnterPending
  /\ task[j].pc = "pipeline" /\ pipe[j].step = "signApk"
  /\ KeystoreOpens(pipe[j].keyOptions)
  /\ pipe' = [pipe EXCEPT ![j].step = "signAab",
                ![j].apkKey = keyFiles[pipe[j].domain].creator]
  /\ UNCHANGED <<jobs, jobQueue, activeJobs, task, dbJobs, dbInFlight, now,
                 response, submitted, dispatchLog, isProcessing, keyFiles,
                 dbKeystores, ksInFlight, keyLog, fetch,
                 httpVars, boot, provided>>

\* Mutant of SignAabDone: the signed files are not copied.
SignAabDoneNoCopy(j) ==
  /\ ~EnterPending
  /\ task[j].pc = "pipeline" /\ pipe[j].step = "signAab"
  /\ KeystoreOpens(pipe[j].keyOptions)
  /\ pipe' = [pipe EXCEPT ![j].step = "cleanup",
                ![j].aabKey = keyFiles[pipe[j].domain].creator]
  /\ UNCHANGED <<jobs, jobQueue, activeJobs, task, dbJobs, dbInFlight, now,
                 response, submitted, dispatchLog, isProcessing, keyFiles,
                 dbKeystores, ksInFlight, keyLog, fetch, httpVars, boot,
                 provided>>

\* jarSigner.sign of the AAB resolves; the signed files are copied to the
\* output directory and the workspace is being removed.
SignAabDone(j) ==
  /\ ~EnterPending
  /\ task[j].pc = "pipeline" /\ pipe[j].step = "signAab"
  /\ KeystoreOpens(pipe[j].keyOptions)
  /\ pipe' = [pipe EXCEPT ![j].step = "cleanup",
                ![j].aabKey = keyFiles[pipe[j].domain].creator]
  /\ diskFiles' = diskFiles \cup OutputPaths(j)
  /\ UNCHANGED <<jobs, jobQueue, activeJobs, task, dbJobs, dbInFlight, now,
                 response, submitted, dispatchLog, isProcessing, keyFiles,
                 dbKeystores, ksInFlight, keyLog, fetch, reply, boot,
                 provided>>

\* jarSigner.sign rejects: the keystore does not open with the password.
SignRejected(j) ==
  /\ ~EnterPending
  /\ pipe[j].step \in {"signApk", "signAab"}
  /\ ~KeystoreOpens(pipe[j].keyOptions)
  /\ PipelineThrow(j, "jarsigner error")

\* The unsigned APK or AAB is not where the build should have left it.
UnsignedNotFound(j) ==
  /\ ~EnterPending
  /\ pipe[j].step \in {"signApk", "signAab"}
  /\ PipelineThrow(j, "Unsigned APK file not found")

\* robustFetch, the project generator or the Gradle build throws.
BuildFails(j) ==
  /\ ~EnterPending
  /\ pipe[j].step = "build"
  /\ PipelineThrow(j, "HTTP error! status: 500")

\* createSigningKey rejects: no key file is written, no INSERT is issued.
KeytoolFails(j) ==
  /\ ~EnterPending
  /\ pipe[j].step = "keytool"
  /\ PipelineThrow(j, "keytool error")

\* cleanupOldFiles resolves and processConversionJob returns the file names.
SignedReturn(j) ==
  /\ ~EnterPending
  /\ pipe[j].step = "cleanup"
  /\ PipelineReturn(j)

\* SQLite executes one INSERT OR REPLACE INTO keystores.
KsRun(row) ==
  /\ ~EnterPending
  /\ row \in ksInFlight
  /\ dbKeystores' = InsertOrReplace(dbKeystores, row)
  /\ ksInFlight' = ksInFlight \ {row}
  /\ UNCHANGED <<jobs, jobQueue, activeJobs, task, dbJobs, dbInFlight, now,
                 response, submitted, dispatchLog, isProcessing, keyFiles,
                 pipe, keyLog, fetch,
                 httpVars, boot, provided>>

\* Submissions of the signing scenario: valid requests for one host.
SignUrls == {Str(<<"https://", "a.example">>)}
SignManifest == Str(<<"https://", "a.example", "/manifest.json">>)

\* A request handler or a promise callback runs when no call of
\* processConversionJob is under way.
SignNext ==
  \/ \E url \in SignUrls :
       /\ ~EnterPending /\ Len(submitted) < MaxSigned
       /\ ConvertAccepted(url, SignManifest)
  \/ \E j \in JobIds : EnterPipeline(j)
  \/ \E j \in JobIds : ReachSigning(j)
  \/ \E j \in JobIds : SelectDone(j)
  \/ \E j \in JobIds : KeytoolDone(j)
  \/ \E j \in JobIds : SignApkDone(j)
  \/ \E j \in JobIds : SignAabDone(j)
  \/ \E j \in JobIds : SignRejected(j)
  \/ \E j \in JobIds : UnsignedNotFound(j)
  \/ \E j \in JobIds : BuildFails(j)
  \/ \E j \in JobIds : KeytoolFails(j)
  \/ \E j \in JobIds : SignedReturn(j)
  \/ \E row \in ksInFlight : KsRun(row)
  \/ \E j \in JobIds : ~EnterPending /\ OnFulfilled(j)
  \/ \E j \in JobIds : ~EnterPending /\ OnRejected(j)
  \/ \E j \in JobIds : ~EnterPending /\ OnFinally(j)

SignSpec == Init /\ [][SignNext]_vars

\* ------------------------------------------------- signing-step properties
\* The job holds the key options it signs with: the identity step is behind it.
Obtained(j) == pipe[j].step \in {"signApk", "signAab", "cleanup"}

\* The keys createSigningKey has written for job j.
KeysCreatedBy(j) == {e \in keyLog : e.key.creator = j}

\* The records the table holds for domain d.
RecordsOf(d) == {row \in dbKeystores : row.domain = d}

\* The jobs that reached the signing step for domain d.
JobsOf(d) == {j \in JobIds : pipe[j].domain = d}

\* C13: when job j has created the key of its domain and has finished before
\* job k for the same domain reaches the signing step, k creates no key and
\* the key options k obtains are those of j.
C13_SequentialReuse ==
  \A j, k \in JobIds :
    /\ j # k /\ KeysCreatedBy(j) # {}
    /\ j \in pipe[k].after /\ pipe[k].domain = pipe[j].domain
    => /\ KeysCreatedBy(k) = {}
       /\ Obtained(k) => pipe[k].keyOptions = pipe[j].keyOptions

\* Job j is between its lookup and the call of the signer.
InCheckThenCreate(j) == pipe[j].step \in {"select", "keytool"}

\* C14: for every domain at most one job finds no identity and takes the
\* create branch, at most one key is ever created, and while the table has no
\* record of the domain no two of its jobs are between lookup and persist.
C14_OneCreator ==
  \A d \in Hosts :
    /\ Cardinality({j \in JobsOf(d) : pipe[j].created}) <= 1
    /\ Cardinality({e \in keyLog : e.domain = d}) <= 1
    /\ RecordsOf(d) = {} =>
         Cardinality({j \in JobsOf(d) : InCheckThenCreate(j)}) <= 1

\* C15: once every INSERT issued for a domain has been executed, every
\* completed job of the domain has signed both artifacts with the key and the
\* key options of the record stored for the domain, so any two completed
\* jobs of a domain signed with the same credentials.
C15_SignedWithStored ==
  \A j \in JobIds :
    /\ jobs[j].status = "completed"
    /\ (\A row \in ksInFlight : row.domain # pipe[j].domain)
    => \E row \in RecordsOf(pipe[j].domain) :
         /\ RowKeyOptions(row) = pipe[j].keyOptions
         /\ pipe[j].apkKey = row.jobId /\ pipe[j].aabKey = row.jobId

\* The table never holds two rows of one domain.
OneRowPerDomain ==
  \A d \in Hosts : Cardinality(RecordsOf(d)) <= 1

\* C16: the table never holds two records of a domain, and it holds exactly
\* one once two jobs of the domain are past the signing-identity step.
C16_ExactlyOneRecord ==
  /\ OneRowPerDomain
  /\ \A d \in Hosts :
       Cardinality({j \in JobsOf(d) : Obtained(j)}) >= 2 =>
         Cardinality(RecordsOf(d)) = 1

\* C17: a record of the table stays in it with the same path, alias, password
\* and key password in every later state.
C17_RecordImmutable ==
  [][\A row \in dbKeystores :
       \E kept \in {r \in dbKeystores' : r.domain = row.domain} :
         RowKeyOptions(kept) = RowKeyOptions(row)]_vars

\* C18: when the table holds a record of the job's domain as the job looks
\* for its identity, the job performs the lookup, obtains exactly the key
\* options of that record, and the step creates no key and writes nothing to
\* the table; a job that found its identity never creates a key or issues an
\* INSERT.
C18_FoundIsReturned ==
  /\ [][\A k \in JobIds :
          /\ pipe[k].step = "build" /\ pipe'[k].step # "build"
               /\ RecordsOf(URLParse(task[k].job.url).hostname) # {}
               => pipe'[k].step = "select"
          /\ pipe[k].step = "select" /\ pipe'[k].step # "select"
               /\ RecordsOf(pipe[k].domain) # {}
               => /\ pipe'[k].step = "signApk" /\ ~pipe'[k].created
                  /\ \E row \in RecordsOf(pipe[k].domain) :
                       pipe'[k].keyOptions = RowKeyOptions(row)
                  /\ keyLog' = keyLog /\ keyFiles' = keyFiles
                  /\ ksInFlight' = ksInFlight /\ dbKeystores' = dbKeystores]_vars
  /\ [](\A k \in JobIds :
          ~pipe[k].created =>
            /\ KeysCreatedBy(k) = {}
            /\ \A row \in dbKeystores \cup ksInFlight : row.jobId # k)

\* A job found the record another job had stored, and signs with it.
C18_Witness ==
  \E j, k \in JobIds :
    /\ j # k /\ pipe[k].step = "signAab" /\ ~pipe[k].created
    /\ KeystoreRow(pipe[j].domain, j, pipe[k].keyOptions) \in dbKeystores

\* C19: a record is only ever written after the key of its job was created,
\* a job whose key creation failed writes no record, and a job that created
\* its identity has the record in the table before it signs with it.
C19_PersistedBeforeUse ==
  /\ \A row \in dbKeystores \cup ksInFlight : KeysCreatedBy(row.jobId) # {}
  /\ \A j \in JobIds :
       /\ pipe[j].step = "keytool" /\ task[j].pc # "pipeline" =>
            \A row \in dbKeystores \cup ksInFlight : row.jobId # j
       /\ pipe[j].created /\ pipe[j].apkKey # 0 =>
            \E row \in RecordsOf(pipe[j].domain) :
              RowKeyOptions(row) = pipe[j].keyOptions

\* ============================================================================
\* robustFetch(url, options, retries)
\* ============================================================================
\* What the target does with one GET: a success status, another status, or
\* no response at all (fetch rejects).
Outcomes == {"ok", "status500", "neterr"}

\* The behaviour of the target over the attempts of one call.
OutcomeSeqs == [1..MaxRetries -> Outcomes]

\* The error the catch block of an attempt receives.
FailureOf(outcome, attempt) ==
  [kind |-> IF outcome = "status500" THEN "HTTP error! status: 500"
            ELSE "fetch failed",
   attempt |-> attempt]

\* Mutant of IsLastAttempt: the loop gives up one attempt early.
IsLastAttemptEarly(attempt, retries) == attempt + 1 >= retries

\* attempt === retries
IsLastAttempt(attempt, retries) == attempt = retries

\* Everything but the state of robustFetch.
schedVars == <<jobs, jobQueue, activeJobs, task, dbJobs, dbInFlight, now,
               response, submitted, dispatchLog>>

\* robustFetch is called: the loop is entered when 1 <= retries and the first
\* GET is sent; otherwise the function returns undefined.
FetchCall ==
  /\ fetch.state = "called"
  /\ fetch' = IF 1 <= fetch.retries
              THEN [fetch EXCEPT !.state = "fetching", !.attempt = 1,
                                 !.calls = 1]
              ELSE [fetch EXCEPT !.state = "returned"]
  /\ UNCHANGED <<schedVars, isProcessing, signVars, httpVars, boot, provided>>

\* `await fetch(url, options)` settles for the current attempt: return the
\* response, throw the error of the last attempt, or start the 1 s timer.
FetchSettles ==
  /\ fetch.state = "fetching"
  /\ LET outcome == fetch.outcomes[fetch.calls]
     IN fetch' =
          IF outcome = "ok"
          THEN [fetch EXCEPT !.state = "returned",
                             !.response = [attempt |-> fetch.attempt,
                                           ok |-> TRUE]]
          ELSE IF IsLastAttempt(fetch.attempt, fetch.retries)
          THEN [fetch EXCEPT !.state = "threw",
                             !.error = FailureOf(outcome, fetch.attempt)]
          ELSE [fetch EXCEPT !.state = "waiting", !.delays = @ + 1]
  /\ UNCHANGED <<schedVars, isProcessing, signVars, httpVars, boot, provided>>

\* The timer fires: attempt++, the loop condition, the next GET.
FetchTimerFires ==
  /\ fetch.state = "waiting"
  /\ fetch' = IF fetch.attempt + 1 <= fetch.retries
              THEN [fetch EXCEPT !.state = "fetching",
                                 !.attempt = fetch.attempt + 1,
                                 !.calls = fetch.calls + 1]
              ELSE [fetch EXCEPT !.state = "returned",
                                 !.attempt = fetch.attempt + 1]
  /\ UNCHANGED <<schedVars, isProcessing, signVars, httpVars, boot, provided>>

\* One call of robustFetch with any attempt count and any target behaviour.
FetchInit ==
  /\ InitScheduler
  /\ InitSigning
  /\ InitHttp
  /\ InitBoot
  /\ InitProvided
  /\ \E n \in 0..MaxRetries, outcomes \in OutcomeSeqs :
       fetch = [NoFetch EXCEPT !.state = "called", !.retries = n,
                               !.outcomes = outcomes]

FetchNext == FetchCall \/ FetchSettles \/ FetchTimerFires

FetchSpec == FetchInit /\ [][FetchNext]_vars

\* The event loop settles every fetch and fires every timer.
FairFetchSpec == FetchSpec /\ WF_vars(FetchNext)

\* The first attempt the target answers with a success status, 0 if none
\* among the first n.
RECURSIVE FirstSuccess(_, _, _)
FirstSuccess(outcomes, k, n) ==
  IF k > n THEN 0
  ELSE IF outcomes[k] = "ok" THEN k
  ELSE FirstSuccess(outcomes, k + 1, n)

\* C20: for an attempt count n >= 1 a call of robustFetch never makes more
\* than n attempts and always ends; it ends by returning the response of
\* attempt k after exactly k attempts when k <= n is the first attempt that
\* succeeds, and by throwing the failure of attempt n after exactly n
\* attempts when none of the n attempts succeeds.
C20_FetchRetries ==
  /\ [](fetch.retries >= 1 =>
          LET n == fetch.retries
              k == FirstSuccess(fetch.outcomes, 1, n)
          IN /\ fetch.calls <= n
             /\ fetch.state = "returned" =>
                  /\ k >= 1 /\ fetch.calls = k
                  /\ fetch.response = [attempt |-> k, ok |-> TRUE]
             /\ fetch.state = "threw" =>
                  /\ k = 0 /\ fetch.calls = n
                  /\ fetch.error = FailureOf(fetch.outcomes[n], n))
  /\ (fetch.retries >= 1 ~> fetch.state \in {"returned", "threw"})

\* Three attempts, the target fails twice and then succeeds.
C20_Witness ==
  /\ fetch.retries = 3 /\ fetch.state = "returned" /\ fetch.calls = 3
  /\ fetch.outcomes[1] # "ok" /\ fetch.outcomes[2] # "ok"
  /\ fetch.response.attempt = 3

MaxQueried == 1

\* processConversionJob from its start, from the generation of the project or
\* from the build, to the copy of the signed files, every step succeeding;
\* cleanupOldFiles is awaited next.
PipelineRelocates(j) ==
  /\ task[j].pc = "pipeline" /\ pipe[j].step \in {"none", "generate", "build"}
  /\ pipe' = [pipe EXCEPT ![j].step = "cleanup"]
  /\ diskFiles' = diskFiles \cup OutputPaths(j)
  /\ UNCHANGED <<schedVars, isProcessing, keyFiles, dbKeystores, ksInFlight,
                 keyLog, fetch, reply, boot, provided>>

\* cleanupOldFiles resolves and processConversionJob returns the file names.
RelocatedReturn(j) ==
  /\ pipe[j].step = "cleanup"
  /\ PipelineReturn(j)

\* The row GET /job sends: the files column goes through JSON.parse.
JobBody(jobId, row) ==
  [jobId |-> jobId, status |-> row.status, created |-> row.created,
   updated |-> row.updated,
   files |-> IF row.files # Null THEN Some(JSONParse(row.files[1])) ELSE Null,
   error |-> row.error]

\* The callback of db.get("SELECT * FROM jobs WHERE jobId = ?").
JobReply(table, jobId) ==
  IF table[jobId] = NoRow
  THEN [NoReply EXCEPT !.route = "job", !.code = 404,
                       !.error = "Job not found", !.jobId = jobId]
  ELSE [NoReply EXCEPT !.route = "job", !.code = 200, !.jobId = jobId,
                       !.body = JobBody(jobId, table[jobId])]

\* GET /job/:jobId: SQLite executes the SELECT and the row, if any, is sent.
GetJob(jobId) ==
  /\ ~MicrotaskPending
  /\ reply' = [JobReply(dbJobs, jobId) EXCEPT !.seq = 1 - reply.seq]
  /\ UNCHANGED <<schedVars, isProcessing, signVars, fetch, diskFiles, boot, provided>>

\* req.params.filename after decoding: up times "..", then a file name.
DownloadNames ==
  {[up |-> 0, name |-> OutputName(<<"https://", "a.example">>, 0, "apk")],
   [up |-> 0, name |-> OutputName(<<"https://", "a.example">>, 0, "aab")],
   [up |-> 0, name |-> OutputName(<<"https://", "b.example">>, 0, "apk")],
   [up |-> 1, name |-> DbFile.name]}

\* path.join(dir, filename): each ".." removes the component before it.
JoinPath(dir, filename) ==
  [dir |-> SubSeq(dir, 1, Len(dir) - filename.up), name |-> filename.name]

\* GET /download/:filename: 404 unless fs.existsSync(filePath), else the file.
Download(filename) ==
  /\ ~MicrotaskPending
  /\ filename.up <= Len(OutputDir)
  /\ LET filePath == JoinPath(OutputDir, filename)
     IN reply' =
          IF filePath \notin diskFiles
          THEN [NoReply EXCEPT !.seq = 1 - reply.seq, !.route = "download",
                               !.code = 404, !.error = "File not found",
                               !.file = filePath]
          ELSE [NoReply EXCEPT !.seq = 1 - reply.seq, !.route = "download",
                               !.code = 200, !.file = filePath]
  /\ UNCHANGED <<schedVars, isProcessing, signVars, fetch, diskFiles, boot, provided>>

QueryNext ==
  \/ (Len(submitted) < MaxQueried /\ Convert)
  \/ \E j \in JobIds : PipelineRelocates(j)
  \/ \E j \in JobIds : RelocatedReturn(j)
  \/ \E j \in JobIds, cause \in Causes : PipelineThrow(j, cause)
  \/ Callbacks
  \/ \E stmt \in dbInFlight : DbRun(stmt)
  \/ \E jobId \in 1..(MaxQueried + 1) : GetJob(jobId)
  \/ \E filename \in DownloadNames : Download(filename)

QuerySpec == Init /\ [][QueryNext]_vars

\* ------------------------------------------------------ status queries
\* The step answers a status query for jobId.
QueryAnswered(jobId) ==
  reply' # reply /\ reply'.route = "job" /\ reply'.jobId = jobId

Accepted(jobId) == \E i \in 1..Len(submitted) : submitted[i] = jobId

\* The record the process holds for an accepted job, as a query shows it.
RecordOf(jobId) ==
  [jobId |-> jobId, status |-> jobs[jobId].status,
   created |-> jobs[jobId].created, updated |-> jobs[jobId].updated,
   files |-> jobs[jobId].files, error |-> jobs[jobId].error]

\* The record of a job as insertJob writes it.
FirstRecordOf(jobId) ==
  [jobId |-> jobId, status |-> "pending", created |-> jobs[jobId].created,
   updated |-> jobs[jobId].created, files |-> Null, error |-> Null]

WriteInFlight(jobId) == \E stmt \in dbInFlight : stmt.jobId = jobId

\* C22: a status query for an id Submit never returned answers not-found; for
\* an accepted job it answers with a record that was written (the record before
\* a write still in flight, or the latest one), and once the terminal write of
\* the job is no longer in flight it answers with the terminal record.
C22_StatusQuery ==
  [][\A jobId \in JobIds :
       QueryAnswered(jobId) =>
         /\ ~Accepted(jobId) => reply'.code = 404
         /\ Accepted(jobId) =>
              \/ reply'.code = 404 /\ WriteInFlight(jobId)
              \/ reply'.code = 200 /\ reply'.body = RecordOf(jobId)
              \/ reply'.code = 200 /\ reply'.body = FirstRecordOf(jobId)
                                   /\ WriteInFlight(jobId)
         /\ Accepted(jobId) /\ Terminal(jobs[jobId].status)
            /\ ~WriteInFlight(jobId) =>
              reply'.code = 200 /\ reply'.body = RecordOf(jobId)]_vars

\* ------------------------------------------------------ output file names
\* C23: two distinct jobs never have the same output file names, whatever
\* their URLs and the instants at which they were dispatched.
C23_DistinctOutputNames ==
  \A i, j \in JobIds :
    i # j /\ task[i].files # NoFiles /\ task[j].files # NoFiles =>
      /\ task[i].files.apk # task[j].files.apk
      /\ task[i].files.aab # task[j].files.aab

\* ------------------------------------------------------------ downloads
\* The files the jobs have copied to the output directory.
Produced == diskFiles \ {DbFile}

\* C24: a download of a file no job produced answers not-found, and a download
\* that sends a file sends one that exists in the output directory.
C24_DownloadOnlyOutputs ==
  reply.route = "download" =>
    /\ reply.file \notin Produced => reply.code = 404
    /\ reply.code = 200 =>
         reply.file.dir = OutputDir /\ reply.file \in diskFiles

\* ============================================================================
\* Restart of the process
\* ============================================================================
MaxRestarts == 1
\* Number of submissions followed across the restarts.
MaxRecorded == 3

\* Mutant of Restart: the new process marks the rows it finds pending failed.
RestartFailsOrphans ==
  /\ boot.n < MaxRestarts
  /\ jobs' = [j \in JobIds |-> NoJob]
  /\ jobQueue' = <<>>
  /\ activeJobs' = 0
  /\ isProcessing' = FALSE
  /\ task' = [j \in JobIds |-> NoTask]
  /\ dbInFlight' = {}
  /\ ksInFlight' = {}
  /\ pipe' = [j \in JobIds |-> NoPipe]
  /\ fetch' = NoFetch
  /\ dbJobs' = [j \in JobIds |->
                  IF dbJobs[j] # NoRow /\ dbJobs[j].status = "pending"
                  THEN [dbJobs[j] EXCEPT !.status = "failed"] ELSE dbJobs[j]]
  /\ boot' = [n |-> boot.n + 1, rows |-> dbJobs, accepted |-> Len(submitted)]
  /\ UNCHANGED <<now, response, submitted, dispatchLog, keyFiles,
                 dbKeystores, keyLog, httpVars, provided>>

\* The process ends (the statements SQLite has not executed are lost) and the
\* module is loaded again: jobs = {}, jobQueue = [], activeJobs = 0, and the
\* tables are created only if they do not exist.
Restart ==
  /\ boot.n < MaxRestarts
  /\ jobs' = [j \in JobIds |-> NoJob]
  /\ jobQueue' = <<>>
  /\ activeJobs' = 0
  /\ isProcessing' = FALSE
  /\ task' = [j \in JobIds |-> NoTask]
  /\ dbInFlight' = {}
  /\ ksInFlight' = {}
  /\ pipe' = [j \in JobIds |-> NoPipe]
  /\ fetch' = NoFetch
  /\ boot' = [n |-> boot.n + 1, rows |-> dbJobs, accepted |-> Len(submitted)]
  /\ UNCHANGED <<dbJobs, now, response, submitted, dispatchLog, keyFiles,
                 dbKeystores, keyLog, httpVars, provided>>

RestartNext ==
  \/ \E url \in UrlInputs, manifestUrl \in ManifestInputs :
       Len(submitted) < MaxRecorded /\ ConvertAccepted(url, manifestUrl)
  \/ Pipeline
  \/ Callbacks
  \/ \E stmt \in dbInFlight : DbRun(stmt)
  \/ Restart

RestartSpec == Init /\ [][RestartNext]_vars

\* The jobs accepted by an earlier process: none has a task or a queue entry.
OrphansLeftAlone ==
  \A j \in 1..boot.accepted :
    /\ task[j] = NoTask
    /\ jobs[j] = NoJob
    /\ \A i \in 1..Len(jobQueue) : jobQueue[i].jobId # j

\* The rows the process found when it started are as it found them.
RowsKept == \A j \in JobIds : boot.rows[j] # NoRow => dbJobs[j] = boot.rows[j]

\* C25: a restart leaves every stored job record as it was, an empty queue and
\* a running count of 0; afterwards no job of the earlier process is dispatched
\* and no stored record of the earlier process changes.
C25_RestartOrphans ==
  [][/\ boot'.n # boot.n =>
          jobQueue' = <<>> /\ activeJobs' = 0 /\ dbJobs' = dbJobs
     /\ boot'.n > 0 => OrphansLeftAlone' /\ RowsKept']_vars

\* After a restart that orphaned a pending job, a new job has completed.
C25_Witness ==
  /\ boot.n > 0
  /\ \E j \in 1..boot.accepted : dbJobs[j] # NoRow /\ dbJobs[j].status = "pending"
  /\ \E j \in JobIds : j > boot.accepted /\ dbJobs[j] # NoRow
                       /\ dbJobs[j].status = "completed"

\* ============================================================================
\* The manifest download of processConversionJob
\* ============================================================================
\* robustFetch(url, options = {}, retries = 3)
DefaultRetries == 3
\* Number of submissions whose manifest download is followed.
MaxFetched == 1

\* The job awaits robustFetch(job.manifestUrl.toString()).
Downloading(j) == task[j].pc = "pipeline" /\ pipe[j].step = "manifest"

\* The job has no projectDir: the project directory is made and robustFetch is
\* called with its default attempt count, against an endpoint that answers
\* each attempt in some way.  One call is followed at a time.
ManifestFetchCalled(j) ==
  /\ task[j].pc = "pipeline" /\ pipe[j].step = "none"
  /\ \A k \in JobIds : ~Downloading(k)
  /\ fetch.state \in {"idle", "returned", "threw"}
  /\ pipe' = [pipe EXCEPT ![j].step = "manifest"]
  /\ \E outcomes \in OutcomeSeqs :
       fetch' = [NoFetch EXCEPT !.state = "called", !.retries = DefaultRetries,
                                !.outcomes = outcomes]
  /\ UNCHANGED <<schedVars, isProcessing, keyFiles, dbKeystores, ksInFlight,
                 keyLog, httpVars, boot, provided>>

\* Mutant of ManifestThrows: the error of robustFetch is swallowed and the
\* project is generated.
ManifestErrorSwallowed(j) ==
  /\ Downloading(j)
  /\ fetch.state = "threw"
  /\ pipe' = [pipe EXCEPT ![j].step = "generate"]
  /\ UNCHANGED <<schedVars, isProcessing, keyFiles, dbKeystores, ksInFlight,
                 keyLog, fetch, httpVars, boot, provided>>

\* robustFetch throws: the error leaves processConversionJob.
ManifestThrows(j) ==
  /\ Downloading(j)
  /\ fetch.state = "threw"
  /\ PipelineThrow(j, fetch.error.kind)

\* robustFetch returns: a response that is not ok is thrown, otherwise the
\* manifest is read from the response and saved (the call is over), and the
\* project is generated next.
ManifestFetched(j) ==
  /\ Downloading(j)
  /\ fetch.state = "returned"
  /\ IF fetch.response.ok
     THEN /\ pipe' = [pipe EXCEPT ![j].step = "generate"]
          /\ fetch' = NoFetch
          /\ UNCHANGED <<schedVars, isProcessing, keyFiles, dbKeystores,
                         ksInFlight, keyLog, httpVars, boot, provided>>
     ELSE PipelineThrow(j, "Failed to fetch manifest")

ManifestNext ==
  \/ \E url \in UrlInputs, manifestUrl \in ManifestInputs :
       Len(submitted) < MaxFetched /\ ConvertAccepted(url, manifestUrl)
  \/ \E j \in JobIds : ManifestFetchCalled(j)
  \/ FetchNext
  \/ \E j \in JobIds : ManifestThrows(j)
  \/ \E j \in JobIds : ManifestFetched(j)
  \/ \E j \in JobIds : pipe[j].step = "generate" /\ PipelineRelocates(j)
  \/ \E j \in JobIds : RelocatedReturn(j)
  \/ Callbacks

ManifestSpec == Init /\ [][ManifestNext]_vars

\* Every fetch settles, every timer fires, every promise callback runs.
FairManifestSpec ==
  /\ ManifestSpec
  /\ WF_vars(FetchNext)
  /\ \A j \in JobIds :
       /\ WF_vars(ManifestThrows(j))
       /\ WF_vars(ManifestFetched(j))
       /\ WF_vars(OnFulfilled(j))
       /\ WF_vars(OnRejected(j))
       /\ WF_vars(OnFinally(j))

\* The endpoint answers every attempt of the budget with status 500.
Every500 == \A i \in 1..DefaultRetries : fetch.outcomes[i] = "status500"

\* C26: when the manifest endpoint answers every one of the 3 attempts with a
\* non-success status, the download ends after exactly 3 GETs by rejecting the
\* pipeline, the job never reaches the generation of the project or any later
\* step, and the job ends failed with the generic message, without files, and
\* its slot released.
C26_ManifestExhausted ==
  /\ [][\A j \in JobIds :
          /\ Downloading(j) /\ Every500 =>
               /\ pipe'[j].step = "manifest"
               /\ task'[j] # task[j] =>
                    task'[j].pc = "rejected" /\ fetch.calls = DefaultRetries
          /\ pipe[j].step = "manifest" /\ ~Downloading(j) =>
               pipe'[j] = pipe[j]]_vars
  /\ \A j \in JobIds :
       (Downloading(j) /\ Every500) ~>
         /\ jobs[j].status = "failed"
         /\ jobs[j].error = Some(GenericError)
         /\ jobs[j].files = Null
         /\ task[j].pc = "finished"

\* A job failed on its manifest download after three GETs, its slot released.
C26_Witness ==
  \E j \in JobIds :
    /\ pipe[j].step = "manifest" /\ task[j].pc = "finished"
    /\ jobs[j].status = "failed"
    /\ fetch.state = "threw" /\ fetch.calls = DefaultRetries /\ Every500

\* ------------------------------------------------------ polling a job
\* SQLite executes every statement, every promise callback runs, and the
\* client keeps polling every job.
FairQuerySpec ==
  /\ QuerySpec
  /\ WF_vars(\E stmt \in dbInFlight : DbRun(stmt))
  /\ \A j \in JobIds :
       /\ WF_vars(OnFulfilled(j))
       /\ WF_vars(OnRejected(j))
       /\ WF_vars(OnFinally(j))
  /\ \A jobId \in 1..(MaxQueried + 1) : WF_vars(GetJob(jobId))

\* The result of a completed job: two names with one prefix <urlHash>_<ts>,
\* both naming files in the output directory.
ResultOk(files) ==
  /\ files # Null
  /\ files[1].apk.ext = "apk" /\ files[1].aab.ext = "aab"
  /\ files[1].apk.hash = files[1].aab.hash
  /\ files[1].apk.ts = files[1].aab.ts
  /\ OutputPath(files[1].apk) \in diskFiles
  /\ OutputPath(files[1].aab) \in diskFiles

\* The last answer was a status of job j.
Polled(j, status) ==
  /\ reply.route = "job" /\ reply.jobId = j /\ reply.code = 200
  /\ reply.body.status = status

\* C27: the polls of a job whose pipeline succeeds never answer failed, answer
\* completed only with a result of two names of one prefix that exist in the
\* output directory, never answer pending after completed, and do answer
\* completed in the end.
C27_PollsPendingThenCompleted ==
  /\ [][\A j \in JobIds :
          QueryAnswered(j) /\ jobs[j].status # "failed"
          /\ task[j].pc # "rejected" /\ reply'.code = 200 =>
            /\ reply'.body.status \in {"pending", "completed"}
            /\ reply'.body.status = "completed" =>
                 ResultOk(reply'.body.files) /\ reply'.body.error = Null
            /\ Polled(j, "completed") =>
                 reply'.body.status = "completed"]_vars
  /\ \A j \in JobIds : (task[j].pc = "fulfilled") ~> Polled(j, "completed")

\* ============================================================================
\* A missing intermediate file
\* ============================================================================
\* Number of submissions followed to the check of the unsigned files.
MaxUnsigned == 2

\* The first submission is for a.example, the second for either domain, the
\* later ones for b.example.
UnsignedUrls ==
  {Str(<<"https://", h>>) :
     h \in CASE Len(submitted) = 0 -> {"a.example"}
              [] Len(submitted) = 1 -> Hosts
              [] OTHER -> {"b.example"}}

\* The signing pipeline for jobs of two domains, where a job fails only
\* because an unsigned file is missing.
UnsignedNext ==
  \/ \E url \in UnsignedUrls :
       /\ ~EnterPending /\ Len(submitted) < MaxUnsigned
       /\ ConvertAccepted(url, SignManifest)
  \/ \E j \in JobIds : EnterPipeline(j)
  \/ \E j \in JobIds : ReachSigning(j)
  \/ \E j \in JobIds : SelectDone(j)
  \/ \E j \in JobIds : KeytoolDone(j)
  \/ \E j \in JobIds : SignApkDone(j)
  \/ \E j \in JobIds : SignAabDone(j)
  \/ \E j \in JobIds : UnsignedNotFound(j)
  \/ \E j \in JobIds : SignedReturn(j)
  \/ \E row \in ksInFlight : KsRun(row)
  \/ \E j \in JobIds : ~EnterPending /\ OnFulfilled(j)
  \/ \E j \in JobIds : ~EnterPending /\ OnRejected(j)
  \/ \E j \in JobIds : ~EnterPending /\ OnFinally(j)

UnsignedSpec == Init /\ [][UnsignedNext]_vars

\* The job threw because an unsigned file was missing.
MissingFile(j) == task[j].cause = "Unsigned APK file not found"

\* No key file, no record and no pending record of any domain changes.
IdentitiesKept ==
  /\ keyFiles' = keyFiles
  /\ dbKeystores' = dbKeystores
  /\ ksInFlight' = ksInFlight

MaxReused == 1

\* The project directories that exist, and the values of projectDir a
\* request body may carry (NoDir: none).
ExistingDirs == {"temp/pwa_old"}
ProjectDirInputs == {NoDir, "temp/pwa_old", "temp/pwa_gone"}

\* POST /convert with a valid url and manifestUrl and a body that may carry a
\* projectDir: only url and manifestUrl are read, the queue entry is
\* {jobId, url, manifestUrl}.
ConvertWithProject(url, manifestUrl, projectDir) ==
  /\ ~MicrotaskPending
  /\ MissingParams(url, manifestUrl) = {}
  /\ ~InvalidUrlFormat(url, manifestUrl)
  /\ Len(submitted) < MaxSubmit
  /\ LET jobId == Len(submitted) + 1
         created == now
         entry == [jobId |-> jobId, url |-> url.chars,
                   manifestUrl |-> URLParse(manifestUrl.chars).href]
     IN /\ jobs' = [jobs EXCEPT ![jobId] = PendingJob(created)]
        /\ dbInFlight' = dbInFlight \cup {InsertStmt(jobId, "pending", created)}
        /\ ProcessQueue(activeJobs, Enqueue(jobQueue, entry), task, now)
        /\ response' = [code |-> 200, error |-> "", jobId |-> jobId,
                        details |-> {}]
        /\ submitted' = Append(submitted, jobId)
        /\ provided' = [provided EXCEPT ![jobId] = projectDir]
        /\ UNCHANGED <<dbJobs, now, isProcessing, signVars, fetch, httpVars,
                       boot>>

\* job.projectDir: undefined when the queue entry has no such property.
ProjectDirOf(job) ==
  IF "projectDir" \in DOMAIN job THEN job.projectDir ELSE NoDir

\* if (job.projectDir && fs.existsSync(job.projectDir)) the directory is
\* reused and the build comes next; else a fresh directory is made and the
\* manifest is fetched.
ResolveWorkspace(j) ==
  IF ProjectDirOf(task[j].job) # NoDir
     /\ ProjectDirOf(task[j].job) \in ExistingDirs
  THEN /\ task[j].pc = "pipeline" /\ pipe[j].step = "none"
       /\ pipe' = [pipe EXCEPT ![j].step = "build"]
       /\ UNCHANGED <<schedVars, isProcessing, keyFiles, dbKeystores,
                      ksInFlight, keyLog, fetch, httpVars, boot, provided>>
  ELSE ManifestFetchCalled(j)

WorkspaceNext ==
  \/ \E url \in UrlInputs, manifestUrl \in ManifestInputs,
        projectDir \in ProjectDirInputs :
       /\ Len(submitted) < MaxReused
       /\ ConvertWithProject(url, manifestUrl, projectDir)
  \/ \E j \in JobIds : ResolveWorkspace(j)
  \/ FetchNext
  \/ \E j \in JobIds : ManifestThrows(j)
  \/ \E j \in JobIds : ManifestFetched(j)
  \/ \E j \in JobIds : pipe[j].step # "none" /\ PipelineRelocates(j)
  \/ \E j \in JobIds : RelocatedReturn(j)
  \/ Callbacks

WorkspaceSpec == Init /\ [][WorkspaceNext]_vars

\* C29: a job whose submission carried a projectDir that exists never
\* downloads the manifest nor generates a project; every other job that has
\* left the start of its pipeline went through the manifest download.
C29_WorkspaceReuse ==
  \A j \in JobIds :
    /\ provided[j] \in ExistingDirs =>
         pipe[j].step \notin {"manifest", "generate"}
    /\ provided[j] \notin ExistingDirs /\ pipe[j].step # "none" =>
         pipe[j].step \in {"manifest", "generate", "cleanup"}

\* ============================================================================
\* The Gradle build killed from outside
\* ============================================================================
\* Number of submissions followed through the Gradle build.
MaxBuilt == 3

\* The workspace is ready and gradle.assembleRelease() is awaited.
GradleStarted(j) ==
  /\ task[j].pc = "pipeline" /\ pipe[j].step = "none"
  /\ pipe' = [pipe EXCEPT ![j].step = "build"]
  /\ UNCHANGED <<schedVars, isProcessing, keyFiles, dbKeystores, ksInFlight,
                 keyLog, fetch, httpVars, boot, provided>>

\* Mutant of GradleKilled: the promise of the build never settles.
GradleKilledUnnoticed(j) ==
  /\ task[j].pc = "pipeline" /\ pipe[j].step = "build"
  /\ pipe' = [pipe EXCEPT ![j].step = "killed"]
  /\ UNCHANGED <<schedVars, isProcessing, keyFiles, dbKeystores, ksInFlight,
                 keyLog, fetch, httpVars, boot, provided>>

\* The Gradle process is killed or timed out from outside: the promise of
\* assembleRelease or bundleRelease rejects and the error leaves
\* processConversionJob.
GradleKilled(j) ==
  /\ task[j].pc = "pipeline" /\ pipe[j].step = "build"
  /\ pipe' = [pipe EXCEPT ![j].step = "killed"]
  /\ task' = [task EXCEPT ![j].pc = "rejected", ![j].cause = "Command failed"]
  /\ UNCHANGED <<jobs, jobQueue, activeJobs, dbJobs, dbInFlight, now, response,
                 submitted, dispatchLog, isProcessing, keyFiles, dbKeystores,
                 ksInFlight, keyLog, fetch, httpVars, boot, provided>>

BuildNext ==
  \/ \E url \in UrlInputs, manifestUrl \in ManifestInputs :
       Len(submitted) < MaxBuilt /\ ConvertAccepted(url, manifestUrl)
  \/ \E j \in JobIds : GradleStarted(j)
  \/ \E j \in JobIds : GradleKilled(j)
  \/ \E j \in JobIds : pipe[j].step = "build" /\ PipelineRelocates(j)
  \/ \E j \in JobIds : RelocatedReturn(j)
  \/ Callbacks

BuildSpec == Init /\ [][BuildNext]_vars

\* The event loop runs every pending promise callback; nothing makes a build
\* end or be killed.
FairBuildSpec ==
  /\ BuildSpec
  /\ \A j \in JobIds :
       /\ WF_vars(OnFulfilled(j))
       /\ WF_vars(OnRejected(j))
       /\ WF_vars(OnFinally(j))

\* C30: a job whose Gradle build was killed ends failed with the generic
\* message, without files, its chain finished; the step that finishes it
\* releases its slot, the running count going down by one but for the jobs
\* dispatched in the same step.
C30_KilledBuildFails ==
  /\ [][\A j \in JobIds :
          pipe[j].step = "killed" /\ task[j].pc = "settled"
          /\ task'[j] # task[j] =>
            /\ task'[j].pc = "finished"
            /\ activeJobs' = activeJobs - 1
                 + (Len(dispatchLog') - Len(dispatchLog))]_vars
  /\ \A j \in JobIds :
       (pipe[j].step = "killed") ~>
         /\ jobs[j].status = "failed"
         /\ jobs[j].error = Some(GenericError)
         /\ jobs[j].files = Null
         /\ task[j].pc = "finished"

\* A job whose build was killed has failed and the job that waited for its
\* slot has been dispatched.
C30_Witness ==
  \E j, k \in JobIds :
    /\ pipe[j].step = "killed" /\ task[j].pc = "finished"
    /\ jobs[j].status = "failed"
    /\ k > maxJobs /\ task[k].pc = "pipeline"

\* ============================================================================
\* Further properties of the scheduler
\* ============================================================================
\* C31: after every step no job waits in the queue while fewer than maxJobs
\* jobs are counted as running or are in flight, and the step that finishes a
\* job while others wait hands the freed slot to the head of the queue.
C31_WorkConserving ==
  [][/\ jobQueue' # <<>> =>
          /\ activeJobs' >= maxJobs
          /\ Cardinality({j \in JobIds : InFlight(j)'}) >= maxJobs
     /\ \A j \in JobIds :
          task[j].pc = "settled" /\ task'[j].pc = "finished"
          /\ jobQueue # <<>> =>
            /\ task'[Head(jobQueue).jobId].pc = "pipeline"
            /\ jobQueue' = Tail(jobQueue)
            /\ activeJobs' = activeJobs]_vars

\* A finished job has handed its slot to a waiting job, and a job still waits.
C31_Witness ==
  /\ \E j \in JobIds : task[j].pc = "finished"
  /\ Len(dispatchLog) = maxJobs + 1
  /\ activeJobs = maxJobs
  /\ jobQueue # <<>>

\* ============================================================================
\* The whole pipeline of a job
\* ============================================================================
\* Number of submissions followed through every step of the pipeline.
MaxStepped == 1

\* The manifest is saved, the TWA project is generated and its manifest
\* written: the Gradle build comes next.
ProjectGenerated(j) ==
  /\ task[j].pc = "pipeline" /\ pipe[j].step = "generate"
  /\ pipe' = [pipe EXCEPT ![j].step = "build"]
  /\ UNCHANGED <<schedVars, isProcessing, keyFiles, dbKeystores, ksInFlight,
                 keyLog, fetch, httpVars, boot, provided>>

StepNext ==
  \/ \E url \in SignUrls :
       Len(submitted) < MaxStepped /\ ConvertAccepted(url, SignManifest)
  \/ \E j \in JobIds : ManifestFetchCalled(j)
  \/ FetchNext
  \/ \E j \in JobIds : ManifestThrows(j)
  \/ \E j \in JobIds : ManifestFetched(j)
  \/ \E j \in JobIds : ProjectGenerated(j)
  \/ \E j \in JobIds : BuildFails(j)
  \/ \E j \in JobIds : ReachSigning(j)
  \/ \E j \in JobIds : SelectDone(j)
  \/ \E j \in JobIds : KeytoolDone(j)
  \/ \E j \in JobIds : KeytoolFails(j)
  \/ \E j \in JobIds : SignApkDone(j)
  \/ \E j \in JobIds : SignAabDone(j)
  \/ \E j \in JobIds : SignRejected(j)
  \/ \E j \in JobIds : UnsignedNotFound(j)
  \/ \E j \in JobIds : SignedReturn(j)
  \/ \E row \in ksInFlight : KsRun(row)
  \/ Callbacks

\* A job of an earlier run of the process.
EarlierJob == 0

\* What earlier runs may have left for a.example: nothing; a key and its
\* record; a key whose record was never written; a key and the record of
\* another key (two jobs created keys at once).
StoredIdentities ==
  LET file == [creator |-> EarlierJob, password |-> <<"a.example", "r1">>]
      row(r) == KeystoreRow("a.example", EarlierJob,
                            NewKeyOptions("a.example", r))
  IN {[file |-> NoKey, rows |-> {}],
      [file |-> file, rows |-> {row("r1")}],
      [file |-> file, rows |-> {}],
      [file |-> file, rows |-> {row("r2")}]}

\* The process starts with what earlier runs left in the keystores
\* directory and the keystores table.
StepInit ==
  /\ InitScheduler
  /\ InitHttp
  /\ InitBoot
  /\ InitProvided
  /\ fetch = NoFetch
  /\ ksInFlight = {}
  /\ pipe = [j \in JobIds |-> NoPipe]
  /\ keyLog = {}
  /\ \E stored \in StoredIdentities :
       /\ keyFiles = [d \in Hosts |->
                        IF d = "a.example" THEN stored.file ELSE NoKey]
       /\ dbKeystores = stored.rows

StepSpec == StepInit /\ [][StepNext]_vars

\* The step that may follow each step of processConversionJob.
NextSteps(step) ==
  CASE step = "none" -> {"manifest"}
    [] step = "manifest" -> {"generate"}
    [] step = "generate" -> {"build"}
    [] step = "build" -> {"select", "keytool"}
    [] step = "select" -> {"keytool", "signApk"}
    [] step = "keytool" -> {"signApk"}
    [] step = "signApk" -> {"signAab"}
    [] step = "signAab" -> {"cleanup"}
    [] OTHER -> {}

\* C32: within one job the steps follow one another in the order workspace
\* (manifest, project), build, signing identity, APK signature, AAB signature
\* under the same identity, copy of both files, cleanup, terminal status: a
\* step starts only from its predecessor and only while the pipeline has
\* not failed, and completed is recorded only once both files are in the
\* output directory.
C32_StepOrder ==
  [][\A j \in JobIds :
       /\ pipe'[j].step # pipe[j].step =>
            /\ task[j].pc = "pipeline" /\ task'[j].pc = "pipeline"
            /\ pipe'[j].step \in NextSteps(pipe[j].step)
       /\ pipe[j].step \in {"signApk", "signAab"} =>
            pipe'[j].keyOptions = pipe[j].keyOptions
       /\ pipe'[j].step = "cleanup" /\ pipe[j].step # "cleanup" =>
            OutputPaths(j) \subseteq diskFiles'
       /\ task[j].pc = "pipeline" /\ task'[j].pc = "fulfilled" =>
            pipe[j].step = "cleanup"
       /\ task[j].pc = "pipeline" /\ task'[j].pc = "rejected" =>
            pipe'[j] = pipe[j]
       /\ jobs[j].status # "completed" /\ jobs'[j].status = "completed" =>
            /\ task[j].pc = "fulfilled" /\ pipe[j].step = "cleanup"
            /\ OutputPaths(j) \subseteq diskFiles
       /\ jobs[j].status # "failed" /\ jobs'[j].status = "failed" =>
            task[j].pc = "rejected" /\ pipe[j].step # "cleanup"]_vars

\* A job that created its key, signed both files and was recorded completed.
C32_Witness ==
  \E j \in JobIds :
    /\ jobs[j].status = "completed"
    /\ pipe[j].step = "cleanup" /\ pipe[j].created
    /\ pipe[j].apkKey = j /\ pipe[j].aabKey = j

\* ------------------------------------------------------------ activeJobs
\* The jobs whose .finally callback runs in this step.
Finishing == {j \in JobIds : task[j].pc = "settled" /\ task'[j].pc = "finished"}

\* C33: activeJobs always equals the number of jobs taken from the queue
\* whose .finally callback has not run; a step raises it by one for each job
\* it dispatches and lowers it by one for each job it finishes, after
\* success and after failure alike; it is never negative and is 0 when no
\* job is in flight.
C33_RunningCount ==
  /\ [](/\ activeJobs = Cardinality({j \in JobIds : InFlight(j)})
        /\ activeJobs >= 0)
  /\ [][/\ activeJobs' - activeJobs =
             (Len(dispatchLog') - Len(dispatchLog)) - Cardinality(Finishing)
        /\ Cardinality(Finishing) <= 1
        /\ \A j \in JobIds :
             jobs[j].status \in {"completed", "failed"}
             /\ task[j].pc = "settled"
             /\ task'[j].pc # "settled" => j \in Finishing]_vars

\* Jobs finished after success and after failure, nothing left in flight.
C33_Witness ==
  /\ activeJobs = 0
  /\ Len(dispatchLog) > maxJobs
  /\ \A j \in JobIds : ~InFlight(j)
  /\ \E j, k \in JobIds :
       /\ task[j].pc = "finished" /\ jobs[j].status = "completed"
       /\ task[k].pc = "finished" /\ jobs[k].status = "failed"

\* ------------------------------------------------------- queue membership
\* No element occurs twice in the sequence.
NoRepeat(seq) == \A i, k \in 1..Len(seq) : seq[i] = seq[k] => i = k

\* The ids of the jobs waiting in the queue.
Queued(queue) == {queue[i].jobId : i \in 1..Len(queue)}

\* The ids of the jobs handed to processConversionJob so far.
Dispatched == {dispatchLog[i] : i \in 1..Len(dispatchLog)}

\* C34: an accepted job is handed to the pipeline at most once, its id is
\* in the queue at most once, every queue entry is a job whose status is
\* pending and which was never dispatched, and a job that was dispatched or
\* is terminal never enters the queue again.
C34_DispatchedOnce ==
  /\ [](/\ NoRepeat(dispatchLog)
        /\ NoRepeat(QueueIds(jobQueue))
        /\ Queued(jobQueue) \cap Dispatched = {}
        /\ \A j \in Queued(jobQueue) :
             jobs[j].status = "pending" /\ task[j].pc = "none")
  /\ [][\A j \in JobIds :
          (j \in Dispatched \/ Terminal(jobs[j].status)) =>
            j \notin Queued(jobQueue')]_vars

\* Jobs wait in the queue while dispatched jobs have become terminal.
C34_Witness ==
  /\ jobQueue # <<>>
  /\ \E j \in Dispatched : task[j].pc = "finished"
  /\ \E j \in Dispatched : task[j].pc = "settled"

\* --------------------------------------------------- memory and store
\* C35: once no statement issued for a job is waiting to execute, the row of
\* the job in the store carries the status, files and error of the job's
\* in-memory record, in whatever order SQLite executed the INSERT and the
\* UPDATE.
C35_StoreAgrees ==
  \A j \in JobIds :
    jobs[j].status # "absent" /\ ~WriteInFlight(j) =>
      /\ dbJobs[j] # NoRow
      /\ dbJobs[j].status = jobs[j].status
      /\ dbJobs[j].files = jobs[j].files
      /\ dbJobs[j].error = jobs[j].error

\* ------------------------------------------------------ workspace names
\* path.join(__dirname, '..', 'temp')
TempFolder == <<"temp">>

\* path.join(tempFolder, `pwa_${timestamp}_${urlHash}`) of a started job.
FreshProjectDir(t) ==
  [dir |-> TempFolder,
   name |-> [prefix |-> "pwa", ts |-> t.timestamp,
             hash |-> <<"base64">> \o t.job.url]]

\* The job is inside processConversionJob with a directory of its own making.
UsesFreshDir(j) ==
  task[j].pc = "pipeline" /\ ProjectDirOf(task[j].job) = NoDir

\* C36: two jobs that are in their pipelines at the same time, neither with
\* a supplied project directory, work in different directories, also when
\* both are for one URL and were dispatched in the same millisecond.
C36_DistinctWorkspaces ==
  \A i, j \in JobIds :
    i # j /\ UsesFreshDir(i) /\ UsesFreshDir(j) =>
      FreshProjectDir(task[i]) # FreshProjectDir(task[j])

\* ------------------------------------------- who writes queue and counter
MaxFramed == 3

\* The files asked for: an output of a job for a.example and the database.
FrameNames ==
  {[up |-> 0, name |-> OutputName(<<"https://", "a.example">>, 0, "apk")],
   [up |-> 1, name |-> DbFile.name]}

\* Submissions, pipelines, their callbacks, the store and the two GET routes
\* side by side; the store is followed for the statements of the job that
\* is asked for.
FrameNext ==
  \/ \E url \in SignUrls :
       Len(submitted) < MaxFramed /\ ConvertAccepted(url, SignManifest)
  \/ \E j \in JobIds : PipelineRelocates(j)
  \/ \E j \in JobIds : RelocatedReturn(j)
  \/ \E j \in JobIds : PipelineThrow(j, "Unsigned APK file not found")
  \/ Callbacks
  \/ \E stmt \in dbInFlight : stmt.jobId = 1 /\ DbRun(stmt)
  \/ GetJob(1)
  \/ \E filename \in FrameNames : Download(filename)

FrameSpec == Init /\ [][FrameNext]_vars

\* The step is one of processConversionJob, of GET /job/:jobId or of
\* GET /download/:filename.
PipelineOrQueryStep ==
  \/ pipe' # pipe
  \/ diskFiles' # diskFiles
  \/ reply' # reply
  \/ \E j \in JobIds :
       task[j].pc = "pipeline" /\ task'[j].pc \in {"fulfilled", "rejected"}

\* C37: the queue and activeJobs change only in a step of POST /convert or
\* of processQueue and its .finally callback; a step of the pipeline, a
\* status query and a download leave the queue, activeJobs, the in-memory
\* records and the store rows as they were.
C37_Frame ==
  [][/\ (jobQueue' # jobQueue \/ activeJobs' # activeJobs) =>
          submitted' # submitted \/ Finishing # {}
     /\ PipelineOrQueryStep =>
          /\ jobQueue' = jobQueue /\ activeJobs' = activeJobs
          /\ jobs' = jobs /\ dbJobs' = dbJobs]_vars

\* A job waits in the queue while another has copied its outputs, a status
\* query was answered from the store and a download was served.
C37_Witness ==
  /\ jobQueue # <<>>
  /\ activeJobs = maxJobs
  /\ \E j \in JobIds : task[j].pc = "fulfilled"
  /\ reply.route = "download" /\ reply.code = 200

\* ----------------------------------------------------------- timestamps
\* created and updated of a record or row are in order, and equal while the
\* status is still the one of the submission.
Stamped(record) ==
  /\ record.updated >= record.created
  /\ record.status = "pending" => record.updated = record.created

\* C38: in every reachable state the in-memory record and the store row of
\* a job have updated >= created, with updated = created until a transition
\* was recorded; with a clock that does not go back, created never changes
\* and updated never decreases.
C38_Timestamps ==
  /\ [](\A j \in JobIds :
          /\ jobs[j] # NoJob => Stamped(jobs[j])
          /\ dbJobs[j] # NoRow => Stamped(dbJobs[j]))
  /\ [][\A j \in JobIds :
          /\ jobs[j] # NoJob =>
               /\ jobs'[j].created = jobs[j].created
               /\ jobs'[j].updated >= jobs[j].updated
          /\ dbJobs[j] # NoRow =>
               /\ dbJobs'[j].created = dbJobs[j].created
               /\ dbJobs'[j].updated >= dbJobs[j].updated]_vars

\* A job submitted after the clock moved, completed later still in memory and
\* in the store, beside a job that is still pending.
C38_Witness ==
  \E j, k \in JobIds :
    /\ jobs[j].status = "completed" /\ dbJobs[j].status = "completed"
    /\ jobs[j].updated > jobs[j].created
    /\ dbJobs[j].updated > dbJobs[j].created
    /\ jobs[k].status = "pending" /\ dbJobs[k].status = "pending"
    /\ jobs[k].created > 0

\* ------------------------------------------- the delay between attempts
MaxDelayed == 3

\* Jobs are submitted, dispatched and run while one of them downloads its
\* manifest with robustFetch.
DelayNext ==
  \/ \E url \in SignUrls :
       Len(submitted) < MaxDelayed /\ ConvertAccepted(url, SignManifest)
  \/ \E j \in JobIds : ManifestFetchCalled(j)
  \/ FetchNext
  \/ \E j \in JobIds : ManifestThrows(j)
  \/ \E j \in JobIds : ManifestFetched(j)
  \/ \E j \in JobIds : PipelineRelocates(j)
  \/ \E j \in JobIds : RelocatedReturn(j)
  \/ Callbacks

DelaySpec == Init /\ [][DelayNext]_vars

\* No promise callback is due: the event loop takes the next request.
LoopIdle ==
  \A j \in JobIds : task[j].pc \notin {"fulfilled", "rejected", "settled"}

\* C39: the 1 s delay between two attempts of robustFetch suspends the
\* calling job only: while it runs, a submission is accepted and dispatched,
\* the callbacks of other jobs run and dispatch queued jobs, and the other
\* jobs' pipelines take their steps; a call that makes k attempts waits k - 1
\* times, never after a success and never after the last failed attempt.
C39_DelaySuspendsCaller ==
  /\ [](fetch.state = "waiting" =>
          /\ LoopIdle /\ Len(submitted) < MaxDelayed =>
               ENABLED (\E url \in SignUrls : ConvertAccepted(url, SignManifest))
          /\ \A k \in JobIds :
               /\ task[k].pc = "fulfilled" => ENABLED OnFulfilled(k)
               /\ task[k].pc = "rejected" => ENABLED OnRejected(k)
               /\ task[k].pc = "settled" => ENABLED OnFinally(k)
               /\ task[k].pc = "pipeline" /\ pipe[k].step \in {"none", "build"}
                    => ENABLED PipelineRelocates(k)
               /\ task[k].pc = "pipeline" /\ pipe[k].step = "cleanup"
                    => ENABLED RelocatedReturn(k))
  /\ [](/\ fetch.state \in {"fetching", "returned", "threw"}
           /\ fetch.calls >= 1 => fetch.delays = fetch.calls - 1
        /\ fetch.state = "waiting" =>
             /\ fetch.delays = fetch.calls
             /\ fetch.outcomes[fetch.calls] # "ok"
             /\ fetch.calls < fetch.retries)
  /\ [][fetch'.state = "waiting" /\ fetch.state # "waiting" =>
          /\ fetch.state = "fetching"
          /\ jobs' = jobs /\ jobQueue' = jobQueue /\ activeJobs' = activeJobs
          /\ task' = task /\ pipe' = pipe]_vars

\* During a delay of one job another job has finished, a queued job was
\* dispatched in its place and a third runs its pipeline.
C39_Witness ==
  /\ fetch.state = "waiting" /\ fetch.delays = 2
  /\ Len(dispatchLog) > maxJobs
  /\ \E k \in JobIds : task[k].pc = "finished"
  /\ \E k \in JobIds : task[k].pc = "pipeline" /\ pipe[k].step = "cleanup"

\* ------------------------------------------------ the sequential worker
MaxSequential == 3

\* POST /convert of the sequential server: record, INSERT, push,
\* processQueue(), 200 {jobId}.
SequentialConvertAccepted(url, manifestUrl) ==
  /\ ~MicrotaskPending
  /\ MissingParams(url, manifestUrl) = {}
  /\ ~InvalidUrlFormat(url, manifestUrl)
  /\ Len(submitted) < MaxSubmit
  /\ LET jobId == Len(submitted) + 1
         created == now
         entry == [jobId |-> jobId, url |-> url.chars,
                   manifestUrl |-> URLParse(manifestUrl.chars).href]
     IN /\ jobs' = [jobs EXCEPT ![jobId] = PendingJob(created)]
        /\ dbInFlight' = dbInFlight \cup {InsertStmt(jobId, "pending", created)}
        /\ SequentialProcessQueue(isProcessing, Enqueue(jobQueue, entry),
                                  task, now)
        /\ response' = [code |-> 200, error |-> "", jobId |-> jobId,
                        details |-> {}]
        /\ submitted' = Append(submitted, jobId)
        /\ UNCHANGED <<activeJobs, dbJobs, now, signVars, fetch, httpVars,
                       boot, provided>>

\* processQueue resumes after `await processConversionJob(job)`: the try or
\* the catch branch, then isProcessing = false and processQueue().
SequentialResume(j) ==
  /\ task[j].pc \in {"fulfilled", "rejected"}
  /\ IF task[j].pc = "fulfilled"
     THEN /\ jobs' = [jobs EXCEPT
                        ![j] = CompletedJob(jobs[j], task[j].files, now)]
          /\ dbInFlight' = dbInFlight \cup
               {UpdateStmt(j, "completed", Some(task[j].files), Null, now)}
     ELSE /\ jobs' = [jobs EXCEPT ![j] = FailedJob(jobs[j], now)]
          /\ dbInFlight' = dbInFlight \cup
               {UpdateStmt(j, "failed", Null, Some(GenericError), now)}
  /\ SequentialProcessQueue(FALSE, jobQueue,
                            [task EXCEPT ![j] = FinishedTask], now)
  /\ UNCHANGED <<activeJobs, dbJobs, now, response, submitted, signVars, fetch,
                 httpVars, boot, provided>>

SequentialNext ==
  \/ \E url \in UrlInputs, manifestUrl \in ManifestInputs :
       Len(submitted) < MaxSequential
       /\ SequentialConvertAccepted(url, manifestUrl)
  \/ Pipeline
  \/ \E j \in JobIds : SequentialResume(j)
  \/ \E stmt \in dbInFlight : DbRun(stmt)

SequentialSpec == Init /\ [][SequentialNext]_vars

\* The job whose await ends in this step.
Resuming(j) ==
  task[j].pc \in {"fulfilled", "rejected"} /\ task'[j].pc = "finished"

\* C40: with the isProcessing flag at most one job is between its dispatch
\* and the end of processQueue, and the flag is set exactly then; a call of
\* processQueue while a job is in progress starts nothing; jobs start in
\* submission order; after success and after failure the flag is cleared and
\* the head of the queue, if any, is started in the same step.
C40_OneAtATime ==
  /\ [](/\ Cardinality({j \in JobIds : InFlight(j)}) <= 1
        /\ isProcessing <=> \E j \in JobIds : InFlight(j)
        /\ ~isProcessing => jobQueue = <<>>
        /\ submitted = dispatchLog \o QueueIds(jobQueue))
  /\ [][/\ isProcessing /\ submitted' # submitted =>
             /\ isProcessing' /\ task' = task /\ dispatchLog' = dispatchLog
             /\ jobQueue' = Append(jobQueue, jobQueue'[Len(jobQueue')])
        /\ \A j \in JobIds :
             Resuming(j) =>
               /\ Terminal(jobs'[j].status)
               /\ IF jobQueue # <<>>
                  THEN /\ isProcessing'
                       /\ task'[Head(jobQueue).jobId].pc = "pipeline"
                       /\ jobQueue' = Tail(jobQueue)
                  ELSE ~isProcessing' /\ jobQueue' = <<>>]_vars

\* After a completed and a failed job the third is in progress.
C40_Witness ==
  /\ isProcessing
  /\ Len(dispatchLog) = 3
  /\ \E j, k \in JobIds :
       /\ task[j].pc = "finished" /\ jobs[j].status = "completed"
       /\ task[k].pc = "finished" /\ jobs[k].status = "failed"

====
